---- MODULE Spec2Model ----
(***************************************************************************)
(* Model of the research assistant's orchestration engine                  *)
(* (src/agent/agent_workflow.py), its conversation memory                  *)
(* (src/tools/conversation_memory_tool.py, src/utils/memory_manager.py)    *)
(* and its response cache (src/utils/cache.py).                            *)
(*                                                                         *)
(* Scores are in hundredths: 0.7 is 70, 1.0 is 100.  Strings that the code *)
(* converts (the router's label) are tuples of one-character strings.      *)
(* Every message, trace record and log entry carries the run that produced *)
(* it, so that provenance can be stated.                                   *)
(***************************************************************************)
EXTENDS Integers, Sequences, FiniteSets, TLC

(***************************************************************************)
(* Bounds of the model.                                                    *)
(***************************************************************************)
MaxNodeCalls == 13      \* node invocations explored in one run
MaxPairNodeCalls == 5   \* the same, for each of two interleaved runs
MaxToolCalls == 1       \* tool calls proposed by one agent message
MaxToolsNodeCalls == 7  \* node invocations of a run whose tool calls may fail
MaxLabelLen == 3        \* length of the generated router labels
MaxCacheOps == 3        \* get, set and clear calls made on the cache
MaxCacheSize == 2       \* max_size of the small caches
BatchCacheSize == 20    \* max_size of the cache whose eviction removes two entries
ModelDefaultTtl == 1    \* default_ttl of the cache, in clock ticks
MaxTime == 2            \* clock ticks
MaxAdds == 4            \* operations made on the memory stores
MaxMemoryLimit == 2     \* memory_limit of the stores
MaxReadLimit == 2       \* the limit asked of a history read
MaxAsideCalls == 1          \* wrapped calls made by each caller
MaxExpiryTime == 3      \* clock ticks where entries outlive one another
MaxThreadOps == 2       \* operations made by each concurrent caller
MaxKeyArgs == 1         \* positional arguments of a call of _generate_key

(***************************************************************************)
(* Program constants.                                                      *)
(***************************************************************************)
MaxRetries == 3                 \* reflection_condition: retry_count <= 3
HallucinationThreshold == 70    \* critic_node: confidence_score < 0.7
DefaultConfidence == 100        \* critic_node: 1.0
DefaultMaxResults == 5          \* run_research(max_results=5)
DefaultMemoryLimit == 20        \* ConversationMemoryTool(memory_limit=20)
DefaultManagerLimit == 50       \* MemoryManager(memory_limit=50)

None == "None"
TruthyAlways(x) == TRUE
Truthy(x) == x # None /\ x # ""

Max(a, b) == IF a >= b THEN a ELSE b
Min(a, b) == IF a <= b THEN a ELSE b

(***************************************************************************)
(* Python sequence helpers.                                                *)
(***************************************************************************)
\* seq[-n:]   (-0 is 0, so n = 0 selects the whole list)
PySliceLast(seq, n) ==
    IF n = 0 THEN seq
    ELSE IF n > 0 THEN SubSeq(seq, Max(1, Len(seq) - n + 1), Len(seq))
    ELSE SubSeq(seq, Min(Len(seq), -n) + 1, Len(seq))

\* dict.get(key, default)
StateGet(s, f, d) == IF f \in DOMAIN s THEN s[f] ELSE d

(***************************************************************************)
(* The router's label: str.strip() and str.lower().                        *)
(***************************************************************************)
Whitespace == {" ", "\n"}

Lower(c) ==
    CASE c = "A" -> "a"
      [] c = "L" -> "l"
      [] c = "N" -> "n"
      [] c = "S" -> "s"
      [] OTHER -> c

RECURSIVE LStrip(_)
LStrip(s) == IF s # <<>> /\ Head(s) \in Whitespace THEN LStrip(Tail(s)) ELSE s

RECURSIVE RStrip(_)
RStrip(s) ==
    IF s # <<>> /\ s[Len(s)] \in Whitespace
    THEN RStrip(SubSeq(s, 1, Len(s) - 1))
    ELSE s

Strip(s) == RStrip(LStrip(s))

LowerStr(s) == [i \in 1..Len(s) |-> Lower(s[i])]

IntentNone == <<"n", "o", "n", "e">>
IntentMemory == <<"m", "e", "m", "o", "r", "y">>
IntentSearch == <<"s", "e", "a", "r", "c", "h">>
IntentAll == <<"a", "l", "l">>

\* the keys of self.tool_groups
ToolGroupKeys == {IntentNone, IntentMemory, IntentSearch, IntentAll}

\* what the completion provider may answer to the router prompt
LabelAlphabet == {" ", "a", "l", "A", "L"}
RouterLabels ==
    UNION {[1..n -> LabelAlphabet] : n \in 0..MaxLabelLen}
    \cup ToolGroupKeys
    \cup { <<" ", "N", "o", "n", "e", "\n">>,
           <<"S", "E", "A", "R", "C", "H">>,
           <<"n", "o", " ", "n", "e">>,
           <<"a", "l", "l", ".">>,
           <<" ", "A", "L", "L", "\n">>,
           <<"\n", "a", "l", "l", " ", "\n">> }
RouterOutcomes ==
    {[kind |-> "label", label |-> l] : l \in RouterLabels}
    \cup {[kind |-> "raise", label |-> <<>>]}

\* router_node, lines 127-131
NormalizeIntentNoFallback(label) == LowerStr(Strip(label))
NormalizeIntent(label) ==
    LET intent == LowerStr(Strip(label))
    IN  IF intent \notin ToolGroupKeys THEN IntentSearch ELSE intent

(***************************************************************************)
(* State.                                                                  *)
(***************************************************************************)
VARIABLES
    pc,                      \* each run's position in run_research / the graph
    args,                    \* each run's arguments (query, conversation_id, max_results)
    state,                   \* each run's AgentState (a dict)
    calls,                   \* each run's node-invocation counters
    result,                  \* what each run's caller received
    execution_trace,         \* self.execution_trace
    current_reflection_logs, \* self.current_reflection_logs
    reflection_stats,        \* self.reflection_stats
    conversations,           \* self.memory_tools.conversations
    current_session_id,      \* self.memory_tools.current_session_id
    memory_limit,            \* self.memory_tools.memory_limit
    router_reply,            \* what the provider answered to each run's router prompt
    own,                     \* what each run produced: trace records, log entries, the
                             \* critic provider's latest answer, the agent's prompts,
                             \* the outcome of every tool call and the contexts the
                             \* latest critic pass collected
    added,                   \* every message ever added to each session, in order
    mm_conversations,        \* MemoryManager.conversations
    mm_limit,                \* MemoryManager.memory_limit
    mm_added,                \* every message ever stored in each MemoryManager session
    n_adds,                  \* number of memory operations made
    last_read,               \* the latest history read and what it returned
    cache,                   \* ResponseCache._cache, in dict (insertion) order
    stats,                   \* ResponseCache._stats
    max_size,                \* ResponseCache._max_size
    default_ttl,             \* ResponseCache._default_ttl
    now,                     \* time.time()
    n_ops,                   \* number of cache operations made
    last_op,                 \* the latest cache operation and what it returned
    prev_op,                 \* the cache operation before it
    lock,                    \* ResponseCache._lock: the caller holding it, or 0
    th,                      \* each concurrent caller's position and local values
    list_id                  \* the identity of the list object bound to each session

wfVars == <<pc, args, state, calls, result, execution_trace,
            current_reflection_logs, reflection_stats, router_reply, own>>
memVars == <<conversations, current_session_id, memory_limit, added>>
mmVars == <<mm_conversations, mm_limit, mm_added, n_adds, last_read>>
cacheVars == <<cache, stats, max_size, default_ttl, now, n_ops, last_op, prev_op>>
thVars == <<lock, th, list_id>>
otherVars == <<mmVars, cacheVars, thVars>>
vars == <<wfVars, memVars, mmVars, cacheVars, thVars>>

AllRuns == {1, 2}
SoloRuns == {1}
ConversationIds == {"A", "B"}

Query(r) == <<"query", r>>

\* messages of the run's history
HumanMessage(content) ==
    [type |-> "human", content |-> content, tool_calls |-> <<>>, tool_call_id |-> <<>>]
AIMessage(content, tool_calls) ==
    [type |-> "ai", content |-> content, tool_calls |-> tool_calls, tool_call_id |-> <<>>]
ToolMessage(content, id) ==
    [type |-> "tool", content |-> content, tool_calls |-> <<>>, tool_call_id |-> id]

Stamp(steps, r) == [i \in 1..Len(steps) |-> [step |-> steps[i], run |-> r]]

NoCalls == [node |-> 0, agent |-> 0, tools |-> 0, critic |-> 0, retries |-> 0]

(***************************************************************************)
(* Conversation memory (ConversationMemoryTool).                           *)
(***************************************************************************)
\* add_message, lines 22-40: the store after add_message(role, content)
add_message(convs, cur, limit, role, content) ==
    IF ~Truthy(cur) THEN convs
    ELSE LET old == IF cur \in DOMAIN convs THEN convs[cur] ELSE <<>>
             app == Append(old, [role |-> role, content |-> content])
             new == IF Len(app) > limit THEN PySliceLast(app, limit) ELSE app
         IN  [s \in DOMAIN convs \cup {cur} |-> IF s = cur THEN new ELSE convs[s]]

(***************************************************************************)
(* The graph: per-field merge of a node's result into the run's state.     *)
(***************************************************************************)
\* AgentState(MessagesState): messages append, every other key overwrites
MergeOverwriting(s, u) ==
    [f \in DOMAIN s \cup DOMAIN u |-> IF f \in DOMAIN u THEN u[f] ELSE s[f]]
Merge(s, u) ==
    [f \in DOMAIN s \cup DOMAIN u |->
        IF f \in DOMAIN u
        THEN IF f = "messages" /\ f \in DOMAIN s THEN s[f] \o u[f] ELSE u[f]
        ELSE s[f]]

LastMessage(s) == s.messages[Len(s.messages)]

\* tools_condition with the mapping {"tools": "tools", END: "critic"}
tools_condition_always_critic(s) == "critic"
tools_condition(s) ==
    IF LastMessage(s).type = "ai" /\ LastMessage(s).tool_calls # <<>>
    THEN "tools"
    ELSE "critic"

\* reflection_condition, lines 262-272
reflection_condition_accepts_one_more(s) ==
    StateGet(s, "is_hallucinating", FALSE)
        /\ StateGet(s, "retry_count", 0) <= MaxRetries + 1
reflection_condition_ignoring_verdict(s) ==
    StateGet(s, "retry_count", 0) <= MaxRetries
reflection_condition_below_max(s) ==
    StateGet(s, "is_hallucinating", FALSE)
        /\ StateGet(s, "retry_count", 0) < MaxRetries
reflection_condition(s) ==
    StateGet(s, "is_hallucinating", FALSE)
        /\ StateGet(s, "retry_count", 0) <= MaxRetries

\* the tool-role contents of the history, critic_node lines 192-195
ContextsOfLastMessage(msgs) ==
    IF msgs # <<>> /\ msgs[Len(msgs)].type = "tool"
    THEN <<msgs[Len(msgs)].content>> ELSE <<>>
ContextsOfEveryMessage(msgs) == [i \in 1..Len(msgs) |-> msgs[i].content]
RECURSIVE Contexts(_)
Contexts(msgs) ==
    IF msgs = <<>> THEN <<>>
    ELSE IF Head(msgs).type = "tool"
         THEN <<Head(msgs).content>> \o Contexts(Tail(msgs))
         ELSE Contexts(Tail(msgs))

(***************************************************************************)
(* What the completion provider and the tools may return.                  *)
(***************************************************************************)
AgentOutcomes ==
    {[kind |-> "final", n |-> 0], [kind |-> "raise", n |-> 0]}
    \cup {[kind |-> "tools", n |-> n] : n \in 1..MaxToolCalls}
\* how the capability behind a tool call ends
ToolResults == {"ok"}
CapabilityOutcomes == {"ok", "fails"}
CriticScores == {40, 70, 90, 150}
CriticOutcomes ==
    {[kind |-> "json", score |-> c] : c \in CriticScores}
    \cup {[kind |-> "json_without_score", score |-> 0],
          [kind |-> "unparsable", score |-> 0],
          [kind |-> "json_not_object", score |-> 0],
          [kind |-> "json_score_not_number", score |-> 0],
          [kind |-> "raise", score |-> 0]}
NoReply == [kind |-> "none", label |-> <<>>]

\* one run on a fresh engine
SoloCfg ==
    [maxCalls |-> MaxNodeCalls,
     cids     |-> [r \in AllRuns |-> ConversationIds \cup {None}],
     router   |-> {[kind |-> "label", label |-> IntentNone],
                   [kind |-> "label", label |-> <<" ", "A", "L", "L", "\n">>],
                   [kind |-> "label", label |-> <<"a", "l", "l", ".">>],
                   [kind |-> "raise", label |-> <<>>]},
     agent    |-> AgentOutcomes,
     tool     |-> ToolResults,
     critic   |-> CriticOutcomes]

\* the router of one run, with every label
RouterCfg == [SoloCfg EXCEPT !.router = RouterOutcomes]

\* one run whose agent proposes sibling tool calls and whose tools may fail
ToolsCfg ==
    [maxCalls |-> MaxToolsNodeCalls,
     cids     |-> [r \in AllRuns |-> {"A"}],
     router   |-> {[kind |-> "label", label |-> IntentAll]},
     agent    |-> {[kind |-> "final", n |-> 0]}
                    \cup {[kind |-> "tools", n |-> n] : n \in 1..(MaxToolCalls + 1)},
     tool     |-> CapabilityOutcomes,
     critic   |-> {[kind |-> "json", score |-> 40], [kind |-> "json", score |-> 90]}]

\* two runs on one engine, started with the ids A and B
PairCfg ==
    [maxCalls |-> MaxPairNodeCalls,
     cids     |-> [r \in AllRuns |-> IF r = 1 THEN {"A"} ELSE {"B"}],
     router   |-> {[kind |-> "label", label |-> IntentAll]},
     agent    |-> {[kind |-> "final", n |-> 0], [kind |-> "tools", n |-> 1]},
     tool     |-> {"ok"},
     critic   |-> {[kind |-> "json", score |-> 40], [kind |-> "json", score |-> 90]}]

(***************************************************************************)
(* run_research and the nodes, one run r at a time or interleaved.         *)
(***************************************************************************)
CanStep(r, cfg) == calls[r].node < cfg.maxCalls

Count(r, node) ==
    [calls EXCEPT ![r].node = @ + 1, ![r][node] = @ + 1]

Logged(r, steps) ==
    /\ execution_trace' = execution_trace \o Stamp(steps, r)
    /\ own' = [own EXCEPT ![r].trace = @ \o Stamp(steps, r)]

\* the record of everything added, beside add_message
AddedAfter(all, cur, role, content) ==
    IF ~Truthy(cur) THEN all
    ELSE [s \in DOMAIN all \cup {cur} |->
            IF s = cur
            THEN Append(IF cur \in DOMAIN all THEN all[cur] ELSE <<>>,
                        [role |-> role, content |-> content])
            ELSE all[s]]

\* run_research lines 327-336: clear the trace and the logs, select the session
BeginRun(r, others, cfg) ==
    /\ pc[r] = "idle"
    /\ \A o \in others : pc[o] \in {"idle", "done", "failed"}
    /\ \E cid \in cfg.cids[r] :
        /\ args' = [args EXCEPT ![r] = [query |-> Query(r), conversation_id |-> cid,
                                        max_results |-> DefaultMaxResults]]
        /\ current_session_id' = IF Truthy(cid) THEN cid ELSE current_session_id
    /\ execution_trace' = <<>>
    /\ current_reflection_logs' = <<>>
    /\ pc' = [pc EXCEPT ![r] = "started"]
    /\ UNCHANGED <<state, calls, result, reflection_stats, router_reply, own,
                   conversations, memory_limit, added, otherVars>>

\* run_research lines 338-355: log the start, store the user query, build the state
StoreUser(r) ==
    /\ pc[r] = "started"
    /\ Logged(r, <<"workflow_start">>)
    /\ conversations' = add_message(conversations, current_session_id, memory_limit,
                                    "user", args[r].query)
    /\ added' = AddedAfter(added, current_session_id, "user", args[r].query)
    /\ state' = [state EXCEPT ![r] =
                    [messages |-> <<HumanMessage(args[r].query)>>,
                     conversation_id |-> args[r].conversation_id,
                     max_results |-> args[r].max_results,
                     retry_count |-> 0,
                     contexts |-> <<>>,
                     intent |-> <<>>]]
    /\ pc' = [pc EXCEPT ![r] = "router"]
    /\ UNCHANGED <<args, calls, result, current_reflection_logs, reflection_stats,
                   router_reply, current_session_id, memory_limit, otherVars>>

\* router_node, lines 119-138, then the edge router -> agent of line 287
RouterNode(r, cfg) ==
    /\ pc[r] = "router"
    /\ CanStep(r, cfg)
    /\ \E out \in cfg.router :
        /\ router_reply' = [router_reply EXCEPT ![r] = out]
        /\ IF out.kind = "raise"
           THEN /\ state' = [state EXCEPT ![r] = Merge(@, [intent |-> IntentSearch])]
                /\ Logged(r, <<"router_start">>)
           ELSE /\ state' = [state EXCEPT ![r] =
                                Merge(@, [intent |-> NormalizeIntent(out.label)])]
                /\ Logged(r, <<"router_start", "router_result">>)
    /\ calls' = [calls EXCEPT ![r].node = @ + 1]
    /\ pc' = [pc EXCEPT ![r] = "agent"]
    /\ UNCHANGED <<args, result, current_reflection_logs, reflection_stats,
                   memVars, otherVars>>

\* agent_node, lines 159-163: the instruction sent to the provider; the retry
\* note is appended when retry_count > 0
agent_prompt_text_note_after_first_retry(max_results, retry_count) ==
    [max_results |-> max_results, retry_note |-> retry_count > 1, attempt |-> retry_count]
agent_prompt_text(max_results, retry_count) ==
    [max_results |-> max_results, retry_note |-> retry_count > 0, attempt |-> retry_count]

\* agent_node, lines 178-181: a failure of the provider is logged and raised;
\* the graph has no handler, so it leaves graph.invoke (run_research line 358)
agent_node_except_returns == "critic"
agent_node_except_finishes == "END"
agent_node_except == "raise"

\* agent_node, lines 140-181, then the conditional edge of lines 290-297
AgentNode(r, cfg) ==
    /\ pc[r] = "agent"
    /\ CanStep(r, cfg)
    /\ calls' = Count(r, "agent")
    /\ \E out \in cfg.agent :
        LET k == calls[r].agent + 1
            ids == [i \in 1..out.n |-> <<r, k, i>>]
            response == AIMessage(<<"answer", r, k>>, ids)
            merged == Merge(state[r], [messages |-> <<response>>])
            prompt == agent_prompt_text(StateGet(state[r], "max_results", 10),
                                        StateGet(state[r], "retry_count", 0))
            steps == <<"agent_start", "tools_bound",
                       IF out.kind = "raise" THEN "agent_error"
                       ELSE IF out.n > 0 THEN "tools_selected"
                       ELSE "no_tools_needed">>
        IN  /\ execution_trace' = execution_trace \o Stamp(steps, r)
            /\ own' = [own EXCEPT ![r].trace = @ \o Stamp(steps, r),
                                  ![r].prompts = Append(@, prompt)]
            /\ IF out.kind = "raise"
               THEN /\ pc' = [pc EXCEPT ![r] = agent_node_except]
                    /\ UNCHANGED state
               ELSE /\ state' = [state EXCEPT ![r] = merged]
                    /\ pc' = [pc EXCEPT ![r] = tools_condition(merged)]
    /\ UNCHANGED <<args, result, current_reflection_logs, reflection_stats,
                   router_reply, memVars, otherVars>>

\* what a tool returns (web_search_tool.py lines 24-65 and the other tools
\* alike): every tool catches the failure of its capability and returns it
\* in an error field
tool_output_without_error(outcome) ==
    [success |-> TRUE, error |-> FALSE]
tool_output(outcome) ==
    [success |-> outcome = "ok", error |-> outcome # "ok"]

\* ToolNode(self.tools), line 282, then the edge tools -> agent of line 299
ToolsNode(r, cfg) ==
    /\ pc[r] = "tools"
    /\ CanStep(r, cfg)
    /\ calls' = Count(r, "tools")
    /\ LET ids == LastMessage(state[r]).tool_calls
       IN  \E res \in [1..Len(ids) -> cfg.tool] :
            /\ state' = [state EXCEPT ![r] =
                Merge(@, [messages |->
                    [i \in 1..Len(ids) |-> ToolMessage(tool_output(res[i]), ids[i])]])]
            /\ own' = [own EXCEPT ![r].tool_outcomes =
                        @ \o [i \in 1..Len(ids) |-> [id |-> ids[i], outcome |-> res[i]]]]
    /\ pc' = [pc EXCEPT ![r] = "agent"]
    /\ UNCHANGED <<args, result, execution_trace, current_reflection_logs,
                   reflection_stats, router_reply, memVars, otherVars>>

\* the confidence score critic_node computes from the provider's answer, lines 211-228
CriticConfidenceFailClosed(out) ==
    IF out.kind = "json" THEN out.score ELSE 0
CriticConfidence(out) ==
    IF out.kind = "json" THEN out.score ELSE DefaultConfidence

\* critic_node, lines 258-260: the provider call fails, json.loads returns
\* something without .get (line 228), or the score does not compare with 0.7
\* (line 229); the outer handler takes over before the statistics are touched
CriticRaises(out) ==
    out.kind \in {"raise", "json_not_object", "json_score_not_number"}

\* critic_node, lines 183-260, then reflection_condition on the merged state
\* critic_node line 229: is_hallucinating = confidence_score < 0.7
hallucinating_at_threshold(confidence_score) == confidence_score <= HallucinationThreshold
hallucinating(confidence_score) == confidence_score < HallucinationThreshold

CriticNode(r, cfg) ==
    /\ pc[r] = "critic"
    /\ CanStep(r, cfg)
    /\ \E out \in cfg.critic :
        LET s == state[r]
            contexts == Contexts(s.messages)
            confidence_score == CriticConfidence(out)
            is_hallucinating == hallucinating(confidence_score)
            retry_count == StateGet(s, "retry_count", 0)
            log_entry == [run |-> r,
                          confidence_score |-> confidence_score,
                          is_hallucinating |-> is_hallucinating,
                          retry_triggered |-> is_hallucinating /\ retry_count < 3]
            update ==
                IF contexts = <<>> \/ CriticRaises(out)
                THEN [is_hallucinating |-> FALSE, confidence_score |-> DefaultConfidence]
                ELSE [is_hallucinating |-> is_hallucinating,
                      confidence_score |-> confidence_score,
                      retry_count |-> IF is_hallucinating THEN retry_count + 1
                                                          ELSE retry_count]
            merged == Merge(s, update)
            retry == reflection_condition(merged)
            steps ==
                IF contexts = <<>> THEN <<"critic_start", "critic_no_context">>
                ELSE IF CriticRaises(out) THEN <<"critic_start">>
                ELSE IF is_hallucinating THEN <<"critic_start", "hallucination_detected">>
                ELSE <<"critic_start", "response_verified">>
            allSteps == steps \o (IF retry THEN <<"triggering_retry">> ELSE <<>>)
            evaluated == contexts # <<>> /\ ~CriticRaises(out)
        IN  \* without contexts the provider is not called: one outcome stands for all
            /\ contexts = <<>> => out = CHOOSE o \in cfg.critic : TRUE
            /\ state' = [state EXCEPT ![r] = merged]
            /\ execution_trace' = execution_trace \o Stamp(allSteps, r)
            /\ current_reflection_logs' =
                    IF evaluated THEN Append(current_reflection_logs, log_entry)
                                 ELSE current_reflection_logs
            /\ own' = [own EXCEPT ![r].trace = @ \o Stamp(allSteps, r),
                                  ![r].logs = IF evaluated THEN Append(@, log_entry) ELSE @,
                                  ![r].critic_out = IF contexts = <<>> THEN "no_context"
                                                                       ELSE out.kind,
                                  ![r].contexts = contexts]
            /\ reflection_stats' =
                    [total_queries |->
                        reflection_stats.total_queries + (IF evaluated THEN 1 ELSE 0),
                     triggered_reflections |->
                        reflection_stats.triggered_reflections
                            + (IF evaluated /\ is_hallucinating THEN 1 ELSE 0),
                     total_retries |->
                        reflection_stats.total_retries + (IF retry THEN 1 ELSE 0),
                     confidence_scores |->
                        IF evaluated
                        THEN Append(reflection_stats.confidence_scores, confidence_score)
                        ELSE reflection_stats.confidence_scores]
            /\ calls' = [calls EXCEPT ![r].node = @ + 1, ![r].critic = @ + 1,
                                      ![r].retries = @ + (IF retry THEN 1 ELSE 0)]
            /\ pc' = [pc EXCEPT ![r] = IF retry THEN "agent" ELSE "END"]
    /\ UNCHANGED <<args, result, router_reply, memVars, otherVars>>

\* run_research lines 360-378: store the answer, log, attach the logs, return
FinishRun(r) ==
    /\ pc[r] = "END"
    /\ conversations' = add_message(conversations, current_session_id, memory_limit,
                                    "assistant", LastMessage(state[r]).content)
    /\ added' = AddedAfter(added, current_session_id, "assistant",
                           LastMessage(state[r]).content)
    /\ Logged(r, <<"workflow_complete">>)
    /\ result' = [result EXCEPT ![r].reflection_logs = current_reflection_logs]
    /\ pc' = [pc EXCEPT ![r] = "returned"]
    /\ UNCHANGED <<args, state, calls, current_reflection_logs, reflection_stats,
                   router_reply, current_session_id, memory_limit, otherVars>>

\* run_research_sync line 101: the caller reads the trace
ReadTrace(r) ==
    /\ pc[r] = "returned"
    /\ result' = [result EXCEPT ![r].execution_trace = execution_trace]
    /\ pc' = [pc EXCEPT ![r] = "done"]
    /\ UNCHANGED <<args, state, calls, execution_trace, current_reflection_logs,
                   reflection_stats, router_reply, own, memVars, otherVars>>

\* run_research lines 380-383: the failure is logged and raised to the caller
FailRun(r) ==
    /\ pc[r] = "raise"
    /\ Logged(r, <<"workflow_error">>)
    /\ pc' = [pc EXCEPT ![r] = "failed"]
    /\ UNCHANGED <<args, state, calls, result, current_reflection_logs,
                   reflection_stats, router_reply, memVars, otherVars>>

\* get_reflection_stats, lines 397-403: the scores s with lo <= s < hi, or
\* lo <= s <= hi for the last bucket
BucketCount(scores, lo, hi, closed) ==
    Cardinality({i \in 1..Len(scores) :
                    /\ lo <= scores[i]
                    /\ IF closed THEN scores[i] <= hi ELSE scores[i] < hi})

\* get_reflection_stats, lines 386-408 (average_retries is kept as the pair
\* total_retries, total_queries that is divided)
get_reflection_stats(rs) ==
    LET scores == rs.confidence_scores
    IN  [total_queries |-> rs.total_queries,
         triggered_reflections |-> rs.triggered_reflections,
         total_retries |-> rs.total_retries,
         confidence_scores |-> scores,
         average_retries |-> IF rs.total_queries > 0
                             THEN <<rs.total_retries, rs.total_queries>>
                             ELSE <<0, 1>>,
         confidence_distribution |->
            IF rs.total_queries > 0
            THEN <<BucketCount(scores, 0, 20, FALSE),
                   BucketCount(scores, 20, 40, FALSE),
                   BucketCount(scores, 40, 60, FALSE),
                   BucketCount(scores, 60, 80, FALSE),
                   BucketCount(scores, 80, 100, TRUE)>>
            ELSE <<>>]

(***************************************************************************)
(* Initial states.                                                         *)
(***************************************************************************)
NoOp == [op |-> "none", key |-> 0, value |-> None, ttl |-> 0, ret |-> None,
         hit |-> FALSE, at |-> 0, size_before |-> 0, size_mid |-> 0]

\* ResearchAssistantWorkflow.__init__, lines 87-97, with no run started
InitWorkflow ==
    /\ pc = [r \in AllRuns |-> "idle"]
    /\ args = [r \in AllRuns |-> [query |-> Query(r), conversation_id |-> None,
                                  max_results |-> DefaultMaxResults]]
    /\ state = [r \in AllRuns |-> [messages |-> <<>>]]
    /\ calls = [r \in AllRuns |-> NoCalls]
    /\ result = [r \in AllRuns |-> [reflection_logs |-> <<>>, execution_trace |-> <<>>]]
    /\ execution_trace = <<>>
    /\ current_reflection_logs = <<>>
    /\ reflection_stats = [total_queries |-> 0, triggered_reflections |-> 0,
                           total_retries |-> 0, confidence_scores |-> <<>>]
    /\ router_reply = [r \in AllRuns |-> NoReply]
    /\ own = [r \in AllRuns |-> [trace |-> <<>>, logs |-> <<>>, critic_out |-> "none",
                                 prompts |-> <<>>, tool_outcomes |-> <<>>,
                                 contexts |-> <<>>]]

\* ConversationMemoryTool.__init__, lines 10-16
InitMemoryTool(limit) ==
    /\ conversations = <<>>
    /\ current_session_id = None
    /\ memory_limit = limit
    /\ added = <<>>

\* no history read yet
NoRead == [store |-> "none", session |-> None, limit |-> 0, stored |-> <<>>,
           ret |-> <<>>]

\* MemoryManager.__init__, lines 12-16
InitMemoryManager(limit) ==
    /\ mm_conversations = <<>>
    /\ mm_limit = limit
    /\ mm_added = <<>>
    /\ n_adds = 0
    /\ last_read = NoRead

\* the callers of the pool before they call anything
Threads == {1, 2}
IdleThread == [pc |-> "idle", op |-> "none", key |-> 0, value |-> None, ttl |-> 0,
               ret |-> None, gets |-> 0, ops |-> 0, ref |-> 0, tmp |-> <<>>]
InitThreads ==
    /\ lock = 0
    /\ th = [t \in Threads |-> IdleThread]
    /\ list_id = <<>>

\* ResponseCache.__init__, lines 47-59, holding `entries`
InitCache(size, ttl, entries) ==
    /\ cache = entries
    /\ stats = [hits |-> 0, misses |-> 0]
    /\ max_size = size
    /\ default_ttl = ttl
    /\ now = 0
    /\ n_ops = 0
    /\ last_op = NoOp
    /\ prev_op = NoOp

(***************************************************************************)
(* Spec: one run on a fresh engine.                                        *)
(***************************************************************************)
Init ==
    /\ InitWorkflow
    /\ InitMemoryTool(DefaultMemoryLimit)
    /\ InitMemoryManager(DefaultManagerLimit)
    /\ InitCache(1, 1, <<>>)
    /\ InitThreads

Next ==
    \E r \in SoloRuns :
        \/ BeginRun(r, SoloRuns \ {r}, SoloCfg)
        \/ StoreUser(r)
        \/ RouterNode(r, SoloCfg)
        \/ AgentNode(r, SoloCfg)
        \/ ToolsNode(r, SoloCfg)
        \/ CriticNode(r, SoloCfg)
        \/ FinishRun(r)
        \/ ReadTrace(r)
        \/ FailRun(r)

Spec == Init /\ [][Next]_vars

(***************************************************************************)
(* SpecRouter: the router of one run, over every label of RouterLabels.    *)
(***************************************************************************)
NextRouter ==
    \E r \in SoloRuns :
        \/ BeginRun(r, SoloRuns \ {r}, RouterCfg)
        \/ StoreUser(r)
        \/ RouterNode(r, RouterCfg)

SpecRouter == Init /\ [][NextRouter]_vars

(***************************************************************************)
(* SpecTools: one run whose tool calls may fail.                           *)
(***************************************************************************)
NextTools ==
    \E r \in SoloRuns :
        \/ BeginRun(r, SoloRuns \ {r}, ToolsCfg)
        \/ StoreUser(r)
        \/ RouterNode(r, ToolsCfg)
        \/ AgentNode(r, ToolsCfg)
        \/ ToolsNode(r, ToolsCfg)
        \/ CriticNode(r, ToolsCfg)
        \/ FinishRun(r)
        \/ ReadTrace(r)

SpecTools == Init /\ [][NextTools]_vars

(***************************************************************************)
(* SpecPair: two runs on one engine, executed by two workers of the pool   *)
(* (main.py, thread_pool and run_research_sync), interleaved between the   *)
(* steps of run_research.                                                  *)
(***************************************************************************)
NextPair ==
    \E r \in AllRuns :
        \/ BeginRun(r, {}, PairCfg)
        \/ StoreUser(r)
        \/ RouterNode(r, PairCfg)
        \/ AgentNode(r, PairCfg)
        \/ ToolsNode(r, PairCfg)
        \/ CriticNode(r, PairCfg)
        \/ FinishRun(r)
        \/ ReadTrace(r)

SpecPair == Init /\ [][NextPair]_vars

(***************************************************************************)
(* SpecSeq: two runs on one engine, the second started after the first has *)
(* returned and its trace has been read.                                   *)
(***************************************************************************)
SeqCfg ==
    [PairCfg EXCEPT !.maxCalls = MaxNodeCalls,
                    !.cids = [r \in AllRuns |-> PairCfg.cids[r] \cup {None}]]

NextSeq ==
    \E r \in AllRuns :
        \/ BeginRun(r, AllRuns \ {r}, SeqCfg)
        \/ StoreUser(r)
        \/ RouterNode(r, SeqCfg)
        \/ AgentNode(r, SeqCfg)
        \/ ToolsNode(r, SeqCfg)
        \/ CriticNode(r, SeqCfg)
        \/ FinishRun(r)
        \/ ReadTrace(r)

SpecSeq == Init /\ [][NextSeq]_vars

(***************************************************************************)
(* The response cache (ResponseCache).  A ttl argument of 0 stands for     *)
(* both None and 0: `ttl or self._default_ttl` treats them alike.          *)
(***************************************************************************)
CacheKeys == {0, 1}
CacheValues == {"v1", "v2"}
TtlArgs == {0, ModelDefaultTtl + 1}

CacheEntry(key, value, created_at, ttl) ==
    [key |-> key, value |-> value, created_at |-> created_at, ttl |-> ttl, hits |-> 0]

\* CacheEntry.is_expired, lines 31-33, at time t
is_expired_at_ttl(e, t) == t - e.created_at >= e.ttl
is_expired(e, t) == t - e.created_at > e.ttl

\* the position of key in the dict, 0 when it is absent
IndexOf(c, key) ==
    IF \E i \in 1..Len(c) : c[i].key = key
    THEN CHOOSE i \in 1..Len(c) : c[i].key = key
    ELSE 0

\* del self._cache[key] for the key at position i
RemoveAt(c, i) == SubSeq(c, 1, i - 1) \o SubSeq(c, i + 1, Len(c))

\* the first key of sorted(keys, key=created_at): the sort is stable
Oldest(c) ==
    CHOOSE i \in 1..Len(c) :
        /\ \A j \in 1..Len(c) : c[j].created_at >= c[i].created_at
        /\ \A j \in 1..(i - 1) : c[j].created_at > c[i].created_at

\* the dict without sorted_keys[:n]
RECURSIVE RemoveOldest(_, _)
RemoveOldest(c, n) ==
    IF n = 0 \/ c = <<>> THEN c
    ELSE RemoveOldest(RemoveAt(c, Oldest(c)), n - 1)

\* _evict_oldest, lines 97-112
evict_oldest_single(c) ==
    IF c = <<>> THEN c
    ELSE RemoveOldest(c, 1)
evict_oldest(c) ==
    IF c = <<>> THEN c
    ELSE RemoveOldest(c, Max(1, Len(c) \div 10))

\* set, lines 87-88: the dict before the new entry is inserted
AfterEviction(c, size) == IF Len(c) >= size THEN evict_oldest(c) ELSE c

\* set, lines 83-95: the dict after set(key, value, ttl) at time t
cache_set_default_ttl(c, key, value, ttl, t, size, dttl) ==
    LET c1 == AfterEviction(c, size)
        e == CacheEntry(key, value, t, dttl)
        i == IndexOf(c1, key)
    IN  IF i = 0 THEN Append(c1, e) ELSE [c1 EXCEPT ![i] = e]
RECURSIVE LiveEntries(_, _)
LiveEntries(c, t) ==
    IF c = <<>> THEN <<>>
    ELSE IF is_expired(Head(c), t) THEN LiveEntries(Tail(c), t)
    ELSE <<Head(c)>> \o LiveEntries(Tail(c), t)
cache_set_purging_expired(c, key, value, ttl, t, size, dttl) ==
    LET c1 == AfterEviction(LiveEntries(c, t), size)
        e == CacheEntry(key, value, t, IF ttl = 0 THEN dttl ELSE ttl)
        i == IndexOf(c1, key)
    IN  IF i = 0 THEN Append(c1, e) ELSE [c1 EXCEPT ![i] = e]
cache_set_overwriting_in_place(c, key, value, ttl, t, size, dttl) ==
    LET e == CacheEntry(key, value, t, IF ttl = 0 THEN dttl ELSE ttl)
        c1 == AfterEviction(c, size)
    IN  IF IndexOf(c, key) > 0 THEN [c EXCEPT ![IndexOf(c, key)] = e]
        ELSE Append(c1, e)
cache_set_appending(c, key, value, ttl, t, size, dttl) ==
    Append(AfterEviction(c, size),
           CacheEntry(key, value, t, IF ttl = 0 THEN dttl ELSE ttl))
cache_set(c, key, value, ttl, t, size, dttl) ==
    LET c1 == AfterEviction(c, size)
        e == CacheEntry(key, value, t, IF ttl = 0 THEN dttl ELSE ttl)
        i == IndexOf(c1, key)
    IN  IF i = 0 THEN Append(c1, e) ELSE [c1 EXCEPT ![i] = e]

\* get, lines 66-81: the dict, the counters and the returned value
cache_get_expiry_uncounted(c, st, key, t) ==
    LET i == IndexOf(c, key)
    IN  IF i > 0 /\ ~is_expired(c[i], t)
        THEN [cache |-> [c EXCEPT ![i].hits = @ + 1],
              stats |-> [st EXCEPT !.hits = @ + 1],
              ret   |-> c[i].value,
              hit   |-> TRUE]
        ELSE [cache |-> IF i > 0 THEN RemoveAt(c, i) ELSE c,
              stats |-> IF i > 0 THEN st ELSE [st EXCEPT !.misses = @ + 1],
              ret   |-> None,
              hit   |-> FALSE]
cache_get(c, st, key, t) ==
    LET i == IndexOf(c, key)
    IN  IF i > 0 /\ ~is_expired(c[i], t)
        THEN [cache |-> [c EXCEPT ![i].hits = @ + 1],
              stats |-> [st EXCEPT !.hits = @ + 1],
              ret   |-> c[i].value,
              hit   |-> TRUE]
        ELSE [cache |-> IF i > 0 THEN RemoveAt(c, i) ELSE c,
              stats |-> [st EXCEPT !.misses = @ + 1],
              ret   |-> None,
              hit   |-> FALSE]

CacheGet(key) ==
    /\ n_ops < MaxCacheOps
    /\ LET g == cache_get(cache, stats, key, now)
       IN  /\ cache' = g.cache
           /\ stats' = g.stats
           /\ last_op' = [op |-> "get", key |-> key, value |-> None, ttl |-> 0,
                          ret |-> g.ret, hit |-> g.hit, at |-> now,
                          size_before |-> Len(cache), size_mid |-> Len(g.cache)]
    /\ prev_op' = last_op
    /\ n_ops' = n_ops + 1
    /\ UNCHANGED <<max_size, default_ttl, now, wfVars, memVars, mmVars, thVars>>

EntrySet(c) == {c[i] : i \in 1..Len(c)}

\* the entries the eviction of a set removes, without their values and hit counts
Evicted(c, size) ==
    {[key |-> e.key, created_at |-> e.created_at, ttl |-> e.ttl] :
        e \in EntrySet(c) \ EntrySet(AfterEviction(c, size))}

CacheSet(key, value, ttl) ==
    /\ n_ops < MaxCacheOps
    /\ cache' = cache_set(cache, key, value, ttl, now, max_size, default_ttl)
    /\ last_op' = [op |-> "set", key |-> key, value |-> value, ttl |-> ttl,
                   ret |-> None, hit |-> FALSE, at |-> now,
                   size_before |-> Len(cache),
                   size_mid |-> Len(AfterEviction(cache, max_size)),
                   evicted |-> Evicted(cache, max_size)]
    /\ prev_op' = last_op
    /\ n_ops' = n_ops + 1
    /\ UNCHANGED <<stats, max_size, default_ttl, now, wfVars, memVars, mmVars, thVars>>

\* clear, lines 114-118
CacheClear ==
    /\ n_ops < MaxCacheOps
    /\ cache' = <<>>
    /\ last_op' = [op |-> "clear", key |-> 0, value |-> None, ttl |-> 0,
                   ret |-> None, hit |-> FALSE, at |-> now,
                   size_before |-> Len(cache), size_mid |-> 0]
    /\ prev_op' = last_op
    /\ n_ops' = n_ops + 1
    /\ UNCHANGED <<stats, max_size, default_ttl, now, wfVars, memVars, mmVars, thVars>>

\* time.time() advances between two operations
Tick ==
    /\ now < MaxTime
    /\ now' = now + 1
    /\ UNCHANGED <<cache, stats, max_size, default_ttl, n_ops, last_op, prev_op,
                   wfVars, memVars, mmVars, thVars>>

\* a cache filled by n calls of set at time 0
Prefilled(n) == [i \in 1..n |-> CacheEntry(i, "v1", 0, ModelDefaultTtl)]

\* SpecCache: one cache, small or of the size at which eviction removes two
InitCacheSpec ==
    /\ InitWorkflow
    /\ InitMemoryTool(DefaultMemoryLimit)
    /\ InitMemoryManager(DefaultManagerLimit)
    /\ \/ \E size \in 0..MaxCacheSize : InitCache(size, ModelDefaultTtl, <<>>)
       \/ \E n \in {BatchCacheSize - 1, BatchCacheSize} :
            InitCache(BatchCacheSize, ModelDefaultTtl, Prefilled(n))
    /\ InitThreads

NextCache ==
    \/ \E key \in CacheKeys : CacheGet(key)
    \/ \E key \in CacheKeys, value \in CacheValues, ttl \in TtlArgs :
            CacheSet(key, value, ttl)
    \/ CacheClear
    \/ Tick

SpecCache == InitCacheSpec /\ [][NextCache]_vars

(***************************************************************************)
(* SpecExpiry: one cache of MaxCacheSize entries whose callers give        *)
(* per-entry ttls, observed long enough for a later entry to expire before *)
(* an earlier one.                                                         *)
(***************************************************************************)
ExpiryKeys == {0, 1, 2}
ExpiryTtlArgs == {0, MaxExpiryTime}

ExpiryTick ==
    /\ now < MaxExpiryTime
    /\ now' = now + 1
    /\ UNCHANGED <<cache, stats, max_size, default_ttl, n_ops, last_op, prev_op,
                   wfVars, memVars, mmVars, thVars>>

InitExpiry ==
    /\ InitWorkflow
    /\ InitMemoryTool(DefaultMemoryLimit)
    /\ InitMemoryManager(DefaultManagerLimit)
    /\ InitCache(MaxCacheSize, ModelDefaultTtl, <<>>)
    /\ InitThreads

NextExpiry ==
    \/ \E key \in ExpiryKeys : CacheGet(key)
    \/ \E key \in ExpiryKeys, ttl \in ExpiryTtlArgs : CacheSet(key, "v1", ttl)
    \/ ExpiryTick

SpecExpiry == InitExpiry /\ [][NextExpiry]_vars

(***************************************************************************)
(* SpecKey: _generate_key, lines 61-64.  A Python str is a sequence of     *)
(* characters; an argument is an int (kept as its decimal digits) or a     *)
(* str.  repr, str(tuple), str(list) and sorted are spelled out character  *)
(* by character.  hashlib.md5 is kept as a tag around the text it hashes:  *)
(* two fingerprints are equal exactly when the hashed texts are, which is  *)
(* md5 without its collisions.                                             *)
(***************************************************************************)
PyInt(digits) == [kind |-> "int", v |-> digits]
PyStr(chars) == [kind |-> "str", v |-> chars]
KeyValues == {PyInt(<<"1">>), PyStr(<<"1">>), PyStr(<<"a", "'">>)}
KwargNames == {<<"x">>, <<"y">>}

Chars(s) == {s[i] : i \in 1..Len(s)}

RECURSIVE EscapeQuotes(_)
EscapeQuotes(s) ==
    IF s = <<>> THEN <<>>
    ELSE (IF Head(s) \in {"'", "\\"} THEN <<"\\", Head(s)>> ELSE <<Head(s)>>)
         \o EscapeQuotes(Tail(s))

\* repr(str): single quotes, double quotes when the text holds ' and no "
ReprStr(s) ==
    IF "'" \in Chars(s) /\ "\"" \notin Chars(s)
    THEN <<"\"">> \o s \o <<"\"">>
    ELSE <<"'">> \o EscapeQuotes(s) \o <<"'">>

\* repr of an argument
Repr(x) == IF x.kind = "int" THEN x.v ELSE ReprStr(x.v)

RECURSIVE JoinComma(_)
JoinComma(parts) ==
    IF parts = <<>> THEN <<>>
    ELSE IF Len(parts) = 1 THEN parts[1]
    ELSE parts[1] \o <<",", " ">> \o JoinComma(Tail(parts))

\* str(args): the repr of a tuple, with the comma of the one-element tuple
StrTuple(xs) ==
    <<"(">> \o JoinComma([i \in 1..Len(xs) |-> Repr(xs[i])])
            \o (IF Len(xs) = 1 THEN <<",">> ELSE <<>>) \o <<")">>

\* str of a list of (name, value) pairs
StrItems(items) ==
    <<"[">> \o JoinComma([i \in 1..Len(items) |->
                            <<"(">> \o ReprStr(items[i][1]) \o <<",", " ">>
                                    \o Repr(items[i][2]) \o <<")">>])
            \o <<"]">>

CharCode(c) == CASE c = "x" -> 120 [] c = "y" -> 121 [] OTHER -> 0

\* a < b on str, by code points
RECURSIVE StrLess(_, _)
StrLess(a, b) ==
    IF b = <<>> THEN FALSE
    ELSE IF a = <<>> THEN TRUE
    ELSE IF CharCode(Head(a)) # CharCode(Head(b)) THEN CharCode(Head(a)) < CharCode(Head(b))
    ELSE StrLess(Tail(a), Tail(b))

\* sorted(kwargs.items()): the names of a call are distinct, so the order is
\* that of the names
RECURSIVE SortedItems(_)
SortedItems(items) ==
    IF items = <<>> THEN <<>>
    ELSE LET m == CHOOSE i \in 1..Len(items) :
                    \A j \in 1..Len(items) : j # i => StrLess(items[i][1], items[j][1])
         IN  <<items[m]>> \o SortedItems(SubSeq(items, 1, m - 1)
                                         \o SubSeq(items, m + 1, Len(items)))

\* hashlib.md5(key_str.encode()).hexdigest()
Md5Hex(text) == <<"md5", text>>

generate_key_unsorted(xs, kwargs) == Md5Hex(StrTuple(xs) \o StrItems(kwargs))
generate_key(xs, kwargs) == Md5Hex(StrTuple(xs) \o StrItems(SortedItems(kwargs)))

\* the calls: positional arguments, and keyword arguments in the order passed
KeyArgs == UNION {[1..n -> KeyValues] : n \in 0..MaxKeyArgs}
KeyKwargs ==
    {<<>>}
    \cup {<<<<n, v>>>> : n \in KwargNames, v \in KeyValues}
    \cup UNION {{<<<<n1, v1>>, <<n2, v2>>>> :
                    n2 \in KwargNames \ {n1}, v1 \in KeyValues, v2 \in KeyValues} :
                n1 \in KwargNames}

\* one call of _generate_key; two calls are made and compared
GenerateKey(xs, kwargs) ==
    /\ prev_op.op # "_generate_key"
    /\ last_op' = [op |-> "_generate_key", key |-> 0, value |-> None, ttl |-> 0,
                   ret |-> generate_key(xs, kwargs), hit |-> FALSE, at |-> now,
                   size_before |-> Len(cache), size_mid |-> Len(cache),
                   args |-> xs, kwargs |-> kwargs]
    /\ prev_op' = last_op
    /\ UNCHANGED <<cache, stats, max_size, default_ttl, now, n_ops, wfVars, memVars,
                   mmVars, thVars>>

NextKey == \E xs \in KeyArgs, kwargs \in KeyKwargs : GenerateKey(xs, kwargs)

SpecKey == Init /\ [][NextKey]_vars

(***************************************************************************)
(* SpecCacheThreads: two callers of one ResponseCache.  Every operation    *)
(* runs inside `with self._lock`; its body is taken in two steps, the work *)
(* on the dict and the update of the counters, so that the lock is what    *)
(* keeps the steps of two callers apart.                                   *)
(***************************************************************************)
ThreadCalls ==
    {[op |-> "get", key |-> k, value |-> None] : k \in CacheKeys}
    \cup {[op |-> "set", key |-> k, value |-> "v1"] : k \in CacheKeys}
    \cup {[op |-> "clear", key |-> 0, value |-> None],
          [op |-> "get_stats", key |-> 0, value |-> None]}

\* get_stats, lines 120-133 (hit_rate is kept as the pair that is divided)
cache_get_stats(c, st, size, dttl) ==
    [size |-> Len(c), max_size |-> size, hits |-> st.hits, misses |-> st.misses,
     hit_rate |-> <<st.hits, st.hits + st.misses>>, default_ttl |-> dttl]

\* a caller calls get, set, clear or get_stats and arrives at the lock
ThreadCall(t, call) ==
    /\ th[t].pc = "idle"
    /\ th[t].ops < MaxThreadOps
    /\ th' = [th EXCEPT ![t].pc = "waiting", ![t].op = call.op, ![t].key = call.key,
                        ![t].value = call.value]
    /\ UNCHANGED <<lock, list_id, cacheVars, wfVars, memVars, mmVars>>

\* with self._lock: the caller enters when no caller holds the lock
ThreadAcquire(t) ==
    /\ th[t].pc = "waiting"
    /\ lock = 0
    /\ lock' = t
    /\ th' = [th EXCEPT ![t].pc = "locked"]
    /\ UNCHANGED <<list_id, cacheVars, wfVars, memVars, mmVars>>

\* the work on the dict: get lines 69-78, set lines 87-94, clear line 117,
\* get_stats lines 123-133
ThreadBody(t) ==
    /\ th[t].pc = "locked"
    /\ LET g == cache_get(cache, stats, th[t].key, now)
       IN  CASE th[t].op = "get" ->
                    /\ cache' = g.cache
                    /\ th' = [th EXCEPT ![t].pc = "counting", ![t].tmp = <<g.hit, g.ret>>]
             [] th[t].op = "set" ->
                    /\ cache' = cache_set(cache, th[t].key, th[t].value, 0, now,
                                          max_size, default_ttl)
                    /\ th' = [th EXCEPT ![t].pc = "counting"]
             [] th[t].op = "clear" ->
                    /\ cache' = <<>>
                    /\ th' = [th EXCEPT ![t].pc = "counting"]
             [] th[t].op = "get_stats" ->
                    /\ cache' = cache
                    /\ th' = [th EXCEPT ![t].pc = "counting",
                                        ![t].ret = cache_get_stats(cache, stats, max_size,
                                                                   default_ttl)]
    /\ UNCHANGED <<lock, list_id, stats, max_size, default_ttl, now, n_ops, last_op,
                   prev_op, wfVars, memVars, mmVars>>

\* the counters: get lines 73 and 80; the other operations have none
ThreadCount(t) ==
    /\ th[t].pc = "counting"
    /\ IF th[t].op = "get"
       THEN /\ stats' = IF th[t].tmp[1] THEN [stats EXCEPT !.hits = @ + 1]
                                         ELSE [stats EXCEPT !.misses = @ + 1]
            /\ th' = [th EXCEPT ![t].pc = "release", ![t].ret = th[t].tmp[2],
                                ![t].tmp = <<>>]
       ELSE /\ stats' = stats
            /\ th' = [th EXCEPT ![t].pc = "release"]
    /\ UNCHANGED <<lock, list_id, cache, max_size, default_ttl, now, n_ops, last_op,
                   prev_op, wfVars, memVars, mmVars>>

\* the end of `with self._lock`: the operation returns
ThreadRelease(t) ==
    /\ th[t].pc = "release"
    /\ lock = t
    /\ lock' = 0
    /\ th' = [th EXCEPT ![t] = [IdleThread EXCEPT
                        !.ops = th[t].ops + 1,
                        !.gets = th[t].gets + (IF th[t].op = "get" THEN 1 ELSE 0)]]
    /\ UNCHANGED <<list_id, cacheVars, wfVars, memVars, mmVars>>

InitCacheThreads ==
    /\ InitWorkflow
    /\ InitMemoryTool(DefaultMemoryLimit)
    /\ InitMemoryManager(DefaultManagerLimit)
    /\ \E size \in 0..MaxCacheSize : InitCache(size, ModelDefaultTtl, <<>>)
    /\ InitThreads

NextCacheThreads ==
    \/ \E t \in Threads, call \in ThreadCalls : ThreadCall(t, call)
    \/ \E t \in Threads : ThreadAcquire(t)
    \/ \E t \in Threads : ThreadBody(t)
    \/ \E t \in Threads : ThreadCount(t)
    \/ \E t \in Threads : ThreadRelease(t)
    \/ Tick

SpecCacheThreads == InitCacheThreads /\ [][NextCacheThreads]_vars

(***************************************************************************)
(* SpecAside: two callers of a function wrapped by cached_llm_call (the    *)
(* wrappers of cached_search and cached_content are the same code on their *)
(* own cache).  get and set each run under the cache's lock, so each is    *)
(* one step; the wrapped function runs between them, outside the lock.     *)
(***************************************************************************)
AsideResults == {"v1", "v2", None}

AsideIdle == [pc |-> "idle", key |-> 0, result |-> None, ret |-> None,
              served |-> FALSE, missed |-> FALSE,
              lookups |-> 0, misses |-> 0, servings |-> 0, executions |-> 0,
              calls |-> 0]

\* wrapper, lines 153-160: build the key, get, return a result that is not None
AsideLookup(t, key) ==
    /\ th[t].pc = "idle"
    /\ th[t].calls < MaxAsideCalls
    /\ LET g == cache_get(cache, stats, key, now)
           cached_result == g.ret
       IN  /\ cache' = g.cache
           /\ stats' = g.stats
           /\ th' = [th EXCEPT
                ![t].key = key,
                ![t].lookups = @ + 1,
                ![t].missed = ~g.hit,
                ![t].misses = @ + (IF g.hit THEN 0 ELSE 1),
                ![t].served = cached_result # None,
                ![t].servings = @ + (IF cached_result # None THEN 1 ELSE 0),
                ![t].ret = cached_result,
                ![t].result = None,
                ![t].calls = @ + (IF cached_result # None THEN 1 ELSE 0),
                ![t].pc = IF cached_result # None THEN "idle" ELSE "executing"]
    /\ UNCHANGED <<lock, list_id, max_size, default_ttl, now, n_ops, last_op, prev_op,
                   wfVars, memVars, mmVars>>

\* wrapper, line 163: result = func(*args, **kwargs)
AsideExecute(t, res) ==
    /\ th[t].pc = "executing"
    /\ th' = [th EXCEPT ![t].result = res, ![t].executions = @ + 1,
                        ![t].pc = "storing"]
    /\ UNCHANGED <<lock, list_id, cacheVars, wfVars, memVars, mmVars>>

\* wrapper, lines 166-169: set the key, return the result
AsideStore(t) ==
    /\ th[t].pc = "storing"
    /\ cache' = cache_set(cache, th[t].key, th[t].result, 0, now, max_size, default_ttl)
    /\ th' = [th EXCEPT ![t].ret = th[t].result, ![t].calls = @ + 1, ![t].pc = "idle"]
    /\ UNCHANGED <<lock, list_id, stats, max_size, default_ttl, now, n_ops, last_op,
                   prev_op, wfVars, memVars, mmVars>>

InitAside ==
    /\ InitWorkflow
    /\ InitMemoryTool(DefaultMemoryLimit)
    /\ InitMemoryManager(DefaultManagerLimit)
    /\ \E size \in 1..MaxCacheSize : InitCache(size, ModelDefaultTtl, <<>>)
    /\ lock = 0
    /\ th = [t \in Threads |-> AsideIdle]
    /\ list_id = <<>>

NextAside ==
    \/ \E t \in Threads, key \in CacheKeys : AsideLookup(t, key)
    \/ \E t \in Threads, res \in AsideResults : AsideExecute(t, res)
    \/ \E t \in Threads : AsideStore(t)
    \/ Tick

SpecAside == InitAside /\ [][NextAside]_vars

(***************************************************************************)
(* SpecEndpoint: two requests to POST /research (main.py research_endpoint) *)
(* over the shared search_cache and the shared engine.  run_research_sync  *)
(* is one step here: what a run stores is taken from run_research lines    *)
(* 335-367, and a run either returns an answer or raises.                  *)
(***************************************************************************)
RawQueries == {<<"q">>, <<"q", " ">>, <<>>}
RequestConversationIds == {"A", "B", None}
RequestMaxResults == {3, 5}
RunOutcomes == {"ok", "raise"}

\* str(uuid.uuid4()), main.py line 181
Uuid4(r) == IF r = 1 THEN "uuid-1" ELSE "uuid-2"

\* str() of a small non-negative int
IntStr(n) ==
    IF n < 10 THEN <<<<"0", "1", "2", "3", "4", "5", "6", "7", "8", "9">>[n + 1]>>
    ELSE <<"1", <<"0", "1", "2", "3", "4", "5", "6", "7", "8", "9">>[n - 9]>>

\* main.py line 190: f"research:{query}:{max_results}"
research_cache_key_with_conversation(req) ==
    <<"research", ":">> \o req.query \o <<":">> \o IntStr(req.max_results)
        \o <<":", req.conversation_id>>
research_cache_key(req) ==
    <<"research", ":">> \o req.query \o <<":">> \o IntStr(req.max_results)

\* the answer of the run made for request r
AnswerOf(r) == <<"answer", r>>

\* main.py lines 213-221
research_result(r, t) ==
    [query |-> args[r].query, conversation_id |-> args[r].conversation_id,
     response |-> AnswerOf(r), max_results |-> args[r].max_results,
     cached |-> FALSE, timestamp |-> t]

\* main.py lines 180-185: read the request, refuse an empty query
EndpointRequest(r, raw, cid, max_results) ==
    /\ pc[r] = "idle"
    /\ args' = [args EXCEPT ![r] =
                    [query |-> Strip(raw),
                     conversation_id |-> IF Truthy(cid) THEN cid ELSE Uuid4(r),
                     max_results |-> max_results]]
    /\ pc' = [pc EXCEPT ![r] = IF Strip(raw) = <<>> THEN "http_400" ELSE "lookup"]
    /\ UNCHANGED <<state, calls, result, execution_trace, current_reflection_logs,
                   reflection_stats, router_reply, own, memVars, otherVars>>

\* main.py lines 190-199: look the key up, answer from the cache on a hit
EndpointLookup(r) ==
    /\ pc[r] = "lookup"
    /\ LET g == cache_get(cache, stats, research_cache_key(args[r]), now)
           cached_response == g.ret
       IN  /\ cache' = g.cache
           /\ stats' = g.stats
           \* `if cached_response:` -- a stored response is a non-empty dict
           /\ IF g.hit
              THEN /\ result' = [result EXCEPT ![r] =
                            [cached_response EXCEPT !.cached = TRUE, !.timestamp = now]]
                   /\ pc' = [pc EXCEPT ![r] = "returned_cached"]
              ELSE /\ result' = result
                   /\ pc' = [pc EXCEPT ![r] = "running"]
    /\ UNCHANGED <<args, state, calls, execution_trace, current_reflection_logs,
                   reflection_stats, router_reply, own, memVars, mmVars, thVars,
                   max_size, default_ttl, now, n_ops, last_op, prev_op>>

\* main.py lines 201-210 and run_research_sync: the run selects the session
\* and stores the query; when it returns it has stored the answer as well
EndpointRun(r, outcome) ==
    /\ pc[r] = "running"
    /\ LET cid == args[r].conversation_id
           asked == add_message(conversations, cid, memory_limit, "user", args[r].query)
           askedAll == AddedAfter(added, cid, "user", args[r].query)
       IN  /\ current_session_id' = cid
           /\ IF outcome = "ok"
              THEN /\ conversations' = add_message(asked, cid, memory_limit,
                                                   "assistant", AnswerOf(r))
                   /\ added' = AddedAfter(askedAll, cid, "assistant", AnswerOf(r))
                   /\ pc' = [pc EXCEPT ![r] = "ran"]
              ELSE /\ conversations' = asked
                   /\ added' = askedAll
                   /\ pc' = [pc EXCEPT ![r] = "http_500"]
    /\ UNCHANGED <<args, state, calls, result, execution_trace,
                   current_reflection_logs, reflection_stats, router_reply, own,
                   memory_limit, otherVars>>

\* main.py lines 213-228: build the response, cache it for 30 minutes, return it
EndpointStore(r) ==
    /\ pc[r] = "ran"
    /\ cache' = cache_set(cache, research_cache_key(args[r]), research_result(r, now),
                          ModelDefaultTtl + 1, now, max_size, default_ttl)
    /\ result' = [result EXCEPT ![r] = research_result(r, now)]
    /\ pc' = [pc EXCEPT ![r] = "returned"]
    /\ UNCHANGED <<args, state, calls, execution_trace, current_reflection_logs,
                   reflection_stats, router_reply, own, memVars, mmVars, thVars,
                   stats, max_size, default_ttl, now, n_ops, last_op, prev_op>>

InitEndpoint ==
    /\ InitWorkflow
    /\ InitMemoryTool(DefaultMemoryLimit)
    /\ InitMemoryManager(DefaultManagerLimit)
    /\ InitCache(MaxCacheSize, ModelDefaultTtl, <<>>)
    /\ InitThreads

NextEndpoint ==
    \/ \E r \in AllRuns, raw \in RawQueries, cid \in RequestConversationIds,
          max_results \in RequestMaxResults :
            EndpointRequest(r, raw, cid, max_results)
    \/ \E r \in AllRuns : EndpointLookup(r)
    \/ \E r \in AllRuns, outcome \in RunOutcomes : EndpointRun(r, outcome)
    \/ \E r \in AllRuns : EndpointStore(r)
    \/ Tick

SpecEndpoint == InitEndpoint /\ [][NextEndpoint]_vars

(***************************************************************************)
(* The memory stores driven directly (ConversationMemoryTool and           *)
(* MemoryManager).                                                         *)
(***************************************************************************)
MemoryRoles == {"user", "assistant"}
MemoryContents == {<<"text", 1>>, <<"text", 2>>}

\* set_session_id, lines 18-20
SetSessionId(s) ==
    /\ n_adds < MaxAdds
    /\ current_session_id' = s
    /\ n_adds' = n_adds + 1
    /\ UNCHANGED <<conversations, memory_limit, added, mm_conversations, mm_limit,
                   mm_added, last_read, wfVars, cacheVars, thVars>>

\* add_message, lines 22-40
AddMessage(role, content) ==
    /\ n_adds < MaxAdds
    /\ conversations' = add_message(conversations, current_session_id, memory_limit,
                                    role, content)
    /\ added' = AddedAfter(added, current_session_id, role, content)
    /\ n_adds' = n_adds + 1
    /\ UNCHANGED <<current_session_id, memory_limit, mm_conversations, mm_limit,
                   mm_added, last_read, wfVars, cacheVars, thVars>>

\* store_conversation, lines 23-36: the store after store_conversation(s, message)
store_conversation(convs, limit, s, message) ==
    LET old == IF s \in DOMAIN convs THEN convs[s] ELSE <<>>
        app == Append(old, message)
        new == IF Len(app) > limit THEN PySliceLast(app, limit) ELSE app
    IN  [x \in DOMAIN convs \cup {s} |-> IF x = s THEN new ELSE convs[x]]

StoreConversation(s, role, content) ==
    /\ n_adds < MaxAdds
    /\ LET message == [role |-> role, content |-> content, timestamp |-> n_adds]
       IN  /\ mm_conversations' = store_conversation(mm_conversations, mm_limit, s, message)
           /\ mm_added' = [x \in DOMAIN mm_added \cup {s} |->
                            IF x = s
                            THEN Append(IF s \in DOMAIN mm_added THEN mm_added[s] ELSE <<>>,
                                        message)
                            ELSE mm_added[x]]
    /\ n_adds' = n_adds + 1
    /\ UNCHANGED <<mm_limit, last_read, memVars, wfVars, cacheVars, thVars>>

\* get_conversation_history (the tool), lines 46-70: what it returns
tool_get_conversation_history(convs, cur, limit) ==
    IF ~Truthy(cur) \/ cur \notin DOMAIN convs
    THEN [success |-> TRUE, history |-> <<>>, message_count |-> 0]
    ELSE LET history == PySliceLast(convs[cur], limit)
         IN  [success |-> TRUE, history |-> history, message_count |-> Len(history)]

\* MemoryManager.get_conversation_history, lines 39-52: what it returns
mm_get_conversation_history(convs, s, limit) ==
    LET messages == IF s \in DOMAIN convs THEN convs[s] ELSE <<>>
    IN  IF limit # 0 THEN PySliceLast(messages, limit) ELSE messages

GetConversationHistory(limit) ==
    /\ n_adds < MaxAdds
    /\ last_read' = [store |-> "tool", session |-> current_session_id, limit |-> limit,
                     stored |-> IF current_session_id \in DOMAIN conversations
                                THEN conversations[current_session_id] ELSE <<>>,
                     ret |-> tool_get_conversation_history(conversations,
                                                           current_session_id, limit)]
    /\ n_adds' = n_adds + 1
    /\ UNCHANGED <<mm_conversations, mm_limit, mm_added, memVars, wfVars, cacheVars,
                   thVars>>

ManagerGetConversationHistory(s, limit) ==
    /\ n_adds < MaxAdds
    /\ last_read' = [store |-> "manager", session |-> s, limit |-> limit,
                     stored |-> IF s \in DOMAIN mm_conversations
                                THEN mm_conversations[s] ELSE <<>>,
                     ret |-> mm_get_conversation_history(mm_conversations, s, limit)]
    /\ n_adds' = n_adds + 1
    /\ UNCHANGED <<mm_conversations, mm_limit, mm_added, memVars, wfVars, cacheVars,
                   thVars>>

InitMemorySpec ==
    /\ InitWorkflow
    /\ \E limit \in 0..MaxMemoryLimit : InitMemoryTool(limit)
    /\ \E limit \in 0..MaxMemoryLimit : InitMemoryManager(limit)
    /\ InitCache(1, 1, <<>>)
    /\ InitThreads

NextMemory ==
    \/ \E s \in ConversationIds \cup {None} : SetSessionId(s)
    \/ \E role \in MemoryRoles, content \in MemoryContents : AddMessage(role, content)
    \/ \E s \in ConversationIds, role \in MemoryRoles, content \in MemoryContents :
            StoreConversation(s, role, content)
    \/ \E limit \in 0..MaxReadLimit : GetConversationHistory(limit)
    \/ \E s \in ConversationIds, limit \in 0..MaxReadLimit :
            ManagerGetConversationHistory(s, limit)

SpecMemory == InitMemorySpec /\ [][NextMemory]_vars

(***************************************************************************)
(* SpecMemoryThreads: two concurrent runs on one ConversationMemoryTool.   *)
(* add_message takes no lock, so it is taken statement by statement: the   *)
(* test of line 27, the binding of line 28, the load of the list and the   *)
(* append of line 30, the test of line 36, the slice and the binding of    *)
(* lines 37-38.  list_id tells the list objects bound to a session apart:  *)
(* lines 28 and 37 bind a new object, and an append to an object that is   *)
(* no longer bound does not reach the session.                             *)
(***************************************************************************)
ThreadConversationIds == {"A", None}
InsideAddMessage == {"check_key", "init", "load", "append", "check_len", "slice",
                     "store", "return"}

NextListId(ids, s) == IF s \in DOMAIN ids THEN ids[s] + 1 ELSE 1
Bind(f, s, v) == [x \in DOMAIN f \cup {s} |-> IF x = s THEN v ELSE f[x]]

\* run_research lines 335-336: if conversation_id: set_session_id(conversation_id)
MemBegin(t, cid) ==
    /\ th[t].pc = "idle"
    /\ current_session_id' = IF Truthy(cid) THEN cid ELSE current_session_id
    /\ th' = [th EXCEPT ![t].pc = "ready", ![t].key = cid]
    /\ UNCHANGED <<lock, list_id, conversations, memory_limit, added, mmVars, wfVars,
                   cacheVars>>

\* run_research lines 341 and 367 call add_message; line 24 returns at once
\* when no session is selected
MemEnter(t) ==
    /\ th[t].pc = "ready"
    /\ th[t].ops < MaxThreadOps
    /\ th' = [th EXCEPT
                ![t].op = "add_message",
                ![t].value = [role |-> IF th[t].ops = 0 THEN "user" ELSE "assistant",
                              content |-> <<IF th[t].ops = 0 THEN "query" ELSE "answer", t>>],
                ![t].pc = IF Truthy(current_session_id) THEN "check_key" ELSE "return"]
    /\ UNCHANGED <<lock, list_id, memVars, mmVars, wfVars, cacheVars>>

\* line 27: if self.current_session_id not in self.conversations
MemCheckKey(t) ==
    /\ th[t].pc = "check_key"
    /\ th' = [th EXCEPT ![t].pc = IF current_session_id \in DOMAIN conversations
                                  THEN "load" ELSE "init"]
    /\ UNCHANGED <<lock, list_id, memVars, mmVars, wfVars, cacheVars>>

\* line 28: self.conversations[self.current_session_id] = []
MemInit(t) ==
    /\ th[t].pc = "init"
    /\ conversations' = Bind(conversations, current_session_id, <<>>)
    /\ list_id' = Bind(list_id, current_session_id, NextListId(list_id, current_session_id))
    /\ th' = [th EXCEPT ![t].pc = "load"]
    /\ UNCHANGED <<lock, current_session_id, memory_limit, added, mmVars, wfVars,
                   cacheVars>>

\* line 30, self.conversations[self.current_session_id]: the list object is loaded
MemLoad(t) ==
    /\ th[t].pc = "load"
    /\ th' = [th EXCEPT ![t].pc = "append", ![t].ref = list_id[current_session_id]]
    /\ UNCHANGED <<lock, list_id, memVars, mmVars, wfVars, cacheVars>>

\* line 30, .append(...): the message goes into the loaded list object
MemAppend(t) ==
    /\ th[t].pc = "append"
    /\ conversations' = IF th[t].ref = list_id[current_session_id]
                        THEN [conversations EXCEPT
                                ![current_session_id] = Append(@, th[t].value)]
                        ELSE conversations
    /\ added' = AddedAfter(added, current_session_id, th[t].value.role,
                           th[t].value.content)
    /\ th' = [th EXCEPT ![t].pc = "check_len", ![t].ref = 0]
    /\ UNCHANGED <<lock, list_id, current_session_id, memory_limit, mmVars, wfVars,
                   cacheVars>>

\* line 36: if len(self.conversations[self.current_session_id]) > self.memory_limit
MemCheckLen(t) ==
    /\ th[t].pc = "check_len"
    /\ th' = [th EXCEPT ![t].pc = IF Len(conversations[current_session_id]) > memory_limit
                                  THEN "slice" ELSE "return"]
    /\ UNCHANGED <<lock, list_id, memVars, mmVars, wfVars, cacheVars>>

\* line 38: self.conversations[self.current_session_id][-self.memory_limit:]
MemSlice(t) ==
    /\ th[t].pc = "slice"
    /\ th' = [th EXCEPT ![t].pc = "store",
                        ![t].tmp = PySliceLast(conversations[current_session_id],
                                               memory_limit)]
    /\ UNCHANGED <<lock, list_id, memVars, mmVars, wfVars, cacheVars>>

\* line 37: self.conversations[self.current_session_id] = the slice
MemStore(t) ==
    /\ th[t].pc = "store"
    /\ conversations' = Bind(conversations, current_session_id, th[t].tmp)
    /\ list_id' = Bind(list_id, current_session_id, NextListId(list_id, current_session_id))
    /\ th' = [th EXCEPT ![t].pc = "return", ![t].tmp = <<>>]
    /\ UNCHANGED <<lock, current_session_id, memory_limit, added, mmVars, wfVars,
                   cacheVars>>

\* line 40, or the return of line 25: add_message returns
MemReturn(t) ==
    /\ th[t].pc = "return"
    /\ th' = [th EXCEPT ![t].pc = "ready", ![t].op = "none", ![t].value = None,
                        ![t].ops = @ + 1]
    /\ UNCHANGED <<lock, list_id, memVars, mmVars, wfVars, cacheVars>>

InitMemoryThreads ==
    /\ InitWorkflow
    /\ \E limit \in 1..MaxMemoryLimit : InitMemoryTool(limit)
    /\ InitMemoryManager(DefaultManagerLimit)
    /\ InitCache(1, 1, <<>>)
    /\ InitThreads

NextMemoryThreads ==
    \/ \E t \in Threads, cid \in ThreadConversationIds : MemBegin(t, cid)
    \/ \E t \in Threads : MemEnter(t)
    \/ \E t \in Threads : MemCheckKey(t)
    \/ \E t \in Threads : MemInit(t)
    \/ \E t \in Threads : MemLoad(t)
    \/ \E t \in Threads : MemAppend(t)
    \/ \E t \in Threads : MemCheckLen(t)
    \/ \E t \in Threads : MemSlice(t)
    \/ \E t \in Threads : MemStore(t)
    \/ \E t \in Threads : MemReturn(t)

SpecMemoryThreads == InitMemoryThreads /\ [][NextMemoryThreads]_vars

(***************************************************************************)
(* Claims about the run (Spec, SpecRouter, SpecPair).                      *)
(***************************************************************************)
Running(r) == pc[r] \in {"router", "agent", "tools", "critic"}
Started(r) == pc[r] \notin {"idle", "started"}

\* C1: in every reachable state of a run 0 <= retry_count <= max_retries = 3.
C1_RetryCountWithinMax ==
    \A r \in AllRuns :
        Started(r) =>
            /\ StateGet(state[r], "retry_count", 0) >= 0
            /\ StateGet(state[r], "retry_count", 0) <= MaxRetries

\* C2: a run is stopped after a bounded number of node invocations (the
\* ceiling the specification names is 10) also when the agent proposes tool
\* calls on every invocation, so that the critic is never reached.
C2_ToolLoopIsCapped ==
    \A r \in AllRuns :
        (Running(r) /\ calls[r].critic = 0) => calls[r].node < 10

\* C3 as stated: the agent node is invoked at most max_retries + 1 = 4 times
\* in a run.
C3_AtMostFourAgentCalls ==
    \A r \in AllRuns : calls[r].agent <= MaxRetries + 1

\* C3 as amended: the edge critic -> agent is taken at most max_retries = 3
\* times in a run, so the agent node is invoked at most max_retries + 1 = 4
\* times plus once for every pass through the tools node.
C3_AgentCallsBoundedByRetriesAndTools ==
    \A r \in AllRuns :
        /\ calls[r].retries <= MaxRetries
        /\ calls[r].agent <= MaxRetries + 1 + calls[r].tools
        /\ calls[r].agent <= 1 + calls[r].retries + calls[r].tools

C3_Witness ==
    \E r \in AllRuns :
        /\ calls[r].retries = MaxRetries
        /\ calls[r].tools >= 1
        /\ calls[r].agent = MaxRetries + 1 + calls[r].tools
        /\ pc[r] = "done"

\* C10: the intent the router writes is one of none, memory, search, all: the
\* provider's label trimmed and lowercased when that is a category, search for
\* every other label and for a provider failure; the router never fails the
\* run (the run goes on to the agent).
C10_RouterIntent ==
    \A r \in AllRuns :
        /\ router_reply[r].kind # "none" =>
            /\ pc[r] = "agent"
            /\ state[r].intent \in ToolGroupKeys
            /\ state[r].intent =
                IF router_reply[r].kind = "label"
                    /\ LowerStr(Strip(router_reply[r].label)) \in ToolGroupKeys
                THEN LowerStr(Strip(router_reply[r].label))
                ELSE IntentSearch
        /\ pc[r] = "router" => router_reply[r].kind = "none"

C10_Witness ==
    \E r \in AllRuns :
        /\ router_reply[r].kind = "label"
        /\ router_reply[r].label \notin ToolGroupKeys
        /\ Len(router_reply[r].label) > Len(Strip(router_reply[r].label))
        /\ LowerStr(router_reply[r].label) # router_reply[r].label
        /\ state[r].intent = IntentAll

\* C8: a message produced by a run started with conversation id A is never
\* stored in the session of another id B.
C8_NoCrossSessionMessages ==
    \A s \in DOMAIN conversations :
        \A i \in 1..Len(conversations[s]) :
            args[conversations[s][i].content[2]].conversation_id = s

\* C9: the reflection_logs a run returns and the execution trace read for it
\* hold exactly the records that run's own nodes produced, in order.
C9_RunReceivesItsOwnRecords ==
    \A r \in AllRuns :
        /\ pc[r] \in {"returned", "done"} => result[r].reflection_logs = own[r].logs
        /\ pc[r] = "done" => result[r].execution_trace = own[r].trace

(***************************************************************************)
(* Claims about the response cache (SpecCache).                            *)
(***************************************************************************)
\* C4: after any set the cache holds at most max_size entries, and a set made
\* while size >= max_size evicts first, so that the size is below max_size
\* when the new entry is inserted, for every configured max_size.
C4_SizeWithinMaxSize ==
    /\ Len(cache) <= max_size
    /\ (last_op.op = "set" /\ last_op.size_before >= max_size) =>
            last_op.size_mid < max_size

\* C5: set(k, v) directly followed by get(k), before the entry's TTL (the ttl
\* given to set, or the cache's default) has elapsed, returns v and is a hit.
C5_SetThenGetReturnsValue ==
    (/\ last_op.op = "get"
     /\ prev_op.op = "set"
     /\ prev_op.key = last_op.key
     /\ last_op.at - prev_op.at <=
            (IF prev_op.ttl = 0 THEN default_ttl ELSE prev_op.ttl))
    => (/\ last_op.ret = prev_op.value
        /\ last_op.hit
        /\ stats.hits >= 1)

C5_Witness ==
    /\ last_op.op = "get"
    /\ prev_op.op = "set"
    /\ prev_op.key = last_op.key
    /\ last_op.at > prev_op.at + default_ttl
    /\ last_op.ret = prev_op.value
    /\ last_op.hit

\* C6: get(key) returns the value and adds one to the hit counter and to the
\* entry's own hit count when the key is stored and now - created_at <= ttl;
\* deletes the entry, adds one to the miss counter and returns a miss when the
\* key is stored and now - created_at > ttl; adds one to the miss counter and
\* returns a miss when the key is absent; it changes no other entry.
C6_GetOutcomes ==
    [][ (n_ops' = n_ops + 1 /\ last_op'.op = "get") =>
            LET i == IndexOf(cache, last_op'.key)
            IN  IF i > 0 /\ now - cache[i].created_at <= cache[i].ttl
                THEN /\ last_op'.ret = cache[i].value
                     /\ stats' = [hits |-> stats.hits + 1, misses |-> stats.misses]
                     /\ cache' = [cache EXCEPT ![i].hits = cache[i].hits + 1]
                ELSE /\ last_op'.ret = None
                     /\ stats' = [hits |-> stats.hits, misses |-> stats.misses + 1]
                     /\ cache' = IF i > 0 THEN RemoveAt(cache, i) ELSE cache
      ]_vars

C6_Witness ==
    /\ last_op.op = "get"
    /\ ~last_op.hit
    /\ last_op.size_mid < last_op.size_before
    /\ Len(cache) >= 1
    /\ stats.hits >= 1

(***************************************************************************)
(* Claims about the memory stores (SpecMemory).                            *)
(***************************************************************************)
Suffix(seq, n) == SubSeq(seq, Len(seq) - n + 1, Len(seq))

\* C7: after every add_message and store_conversation a session holds at most
\* the configured limit of messages, for every configured limit, and they are
\* the most recently added ones in insertion order.
C7_SessionWithinLimit ==
    /\ \A s \in DOMAIN conversations :
        /\ Len(conversations[s]) <= memory_limit
        /\ conversations[s] = Suffix(added[s], Min(memory_limit, Len(added[s])))
    /\ \A s \in DOMAIN mm_conversations :
        /\ Len(mm_conversations[s]) <= mm_limit
        /\ mm_conversations[s] = Suffix(mm_added[s], Min(mm_limit, Len(mm_added[s])))

(***************************************************************************)
(* Claims about the critic, the agent and the tools of a run.              *)
(***************************************************************************)
CriticFailures == {"unparsable", "json_not_object", "json_score_not_number", "raise"}
Ended(r) == pc[r] \in {"END", "returned", "done"}

\* C11: the critic fails open: when the provider's answer cannot be parsed as
\* the expected JSON object, or the provider call fails, the critic writes
\* confidence_score = 1.0 and is_hallucinating = false, leaves retry_count as
\* it is, and the run proceeds to END.
C11_CriticFailsOpen ==
    [][ \A r \in AllRuns :
          (/\ calls'[r].critic = calls[r].critic + 1
           /\ own'[r].critic_out \in CriticFailures)
          => /\ state'[r].confidence_score = DefaultConfidence
             /\ state'[r].is_hallucinating = FALSE
             /\ StateGet(state'[r], "retry_count", 0) = StateGet(state[r], "retry_count", 0)
             /\ pc'[r] = "END"
      ]_vars

C11_Witness ==
    \E r \in AllRuns :
        /\ pc[r] = "END"
        /\ own[r].critic_out = "unparsable"
        /\ StateGet(state[r], "retry_count", 0) >= 1
        /\ reflection_stats.confidence_scores # <<>>

\* C12: whatever JSON object the provider returns, the confidence_score the
\* critic writes to the state and records in the statistics lies in [0, 1].
C12_ConfidenceInUnitInterval ==
    /\ \A r \in AllRuns :
        "confidence_score" \in DOMAIN state[r] =>
            (0 <= state[r].confidence_score /\ state[r].confidence_score <= 100)
    /\ \A i \in 1..Len(reflection_stats.confidence_scores) :
        /\ 0 <= reflection_stats.confidence_scores[i]
        /\ reflection_stats.confidence_scores[i] <= 100

\* C13: with no tool-role message in the history the critic returns
\* confidence_score = 1.0 and is_hallucinating = false without calling the
\* provider; a run whose agent proposes no tool calls has exactly one agent
\* invocation and one critic pass and ends with retry_count = 0.
C13_NoContextShortCircuit ==
    \A r \in AllRuns :
        (Ended(r) /\ calls[r].tools = 0) =>
            /\ calls[r].agent = 1
            /\ calls[r].critic = 1
            /\ StateGet(state[r], "retry_count", 0) = 0
            /\ state[r].confidence_score = DefaultConfidence
            /\ state[r].is_hallucinating = FALSE
            /\ own[r].critic_out = "no_context"
            /\ own[r].logs = <<>>
            /\ reflection_stats.total_queries = 0

C13_Witness ==
    \E r \in AllRuns :
        /\ pc[r] = "done"
        /\ calls[r].tools = 0
        /\ calls[r].critic = 1
        /\ \E i \in 1..Len(own[r].trace) : own[r].trace[i].step = "critic_no_context"

Last(seq) == seq[Len(seq)]
HasStep(r, step) == \E i \in 1..Len(own[r].trace) : own[r].trace[i].step = step

\* C14: when the first critic pass of a run, with tool context, returns 0.4,
\* is_hallucinating becomes true, retry_count becomes 1 and the agent is
\* invoked again; the agent's instruction carries the retry note exactly when
\* retry_count > 0 at the invocation; when the second critic pass returns 0.9
\* the run ends with retry_count = 1 after exactly two critic passes.
C14_RetryThenAccept ==
    [][ \A r \in AllRuns :
          /\ (/\ calls[r].critic = 0
              /\ calls'[r].critic = 1
              /\ Len(own'[r].logs) = 1
              /\ own'[r].logs[1].confidence_score = 40)
             => /\ state'[r].is_hallucinating = TRUE
                /\ state'[r].retry_count = 1
                /\ pc'[r] = "agent"
          /\ (calls'[r].agent = calls[r].agent + 1)
             => (Last(own'[r].prompts).retry_note
                    <=> StateGet(state[r], "retry_count", 0) > 0)
          /\ (/\ calls[r].critic = 1
              /\ calls'[r].critic = 2
              /\ Len(own'[r].logs) = 2
              /\ own'[r].logs[1].confidence_score = 40
              /\ own'[r].logs[2].confidence_score = 90)
             => /\ state'[r].is_hallucinating = FALSE
                /\ state'[r].retry_count = 1
                /\ pc'[r] = "END"
      ]_vars

C14_Witness ==
    \E r \in AllRuns :
        /\ pc[r] = "done"
        /\ calls[r].critic = 2
        /\ Len(own[r].logs) = 2
        /\ own[r].logs[1].confidence_score = 40
        /\ own[r].logs[2].confidence_score = 90
        /\ state[r].retry_count = 1
        /\ ~own[r].prompts[1].retry_note
        /\ Last(own[r].prompts).retry_note

\* a run that has ended, every critic pass of which returned a score below
\* 0.7, and whose agent proposed no tool calls after the first critic pass
EveryVerdictHallucinating(r) ==
    /\ Ended(r)
    /\ calls[r].critic >= 1
    /\ Len(own[r].logs) = calls[r].critic
    /\ \A i \in 1..Len(own[r].logs) :
        own[r].logs[i].confidence_score < HallucinationThreshold
    /\ \A i, j \in 1..Len(own[r].trace) :
        (i < j /\ own[r].trace[i].step = "critic_start")
            => own[r].trace[j].step # "tools_selected"

\* C15 as stated: when every critic pass returns a score below 0.7 and the
\* agent proposes no further tool calls on retries, exactly three retries are
\* accepted, the next is denied, and the run ends with at most 4 agent
\* invocations in total.
C15_ThreeRetriesFourAgentCalls ==
    \A r \in AllRuns :
        EveryVerdictHallucinating(r) =>
            /\ calls[r].retries = MaxRetries
            /\ calls[r].critic = MaxRetries + 1
            /\ calls[r].agent <= MaxRetries + 1

\* C15 as amended: ... exactly three retries are accepted, the fourth
\* hallucinating verdict is denied, and the run ends with 4 agent invocations
\* plus one for every pass through the tools node before the first critic
\* pass (at least 5 in total, since the critic judges only with tool context).
C15_ThreeRetriesThenDenied ==
    \A r \in AllRuns :
        EveryVerdictHallucinating(r) =>
            /\ calls[r].retries = MaxRetries
            /\ calls[r].critic = MaxRetries + 1
            /\ calls[r].tools >= 1
            /\ calls[r].agent = MaxRetries + 1 + calls[r].tools

C15_Witness ==
    \E r \in AllRuns :
        /\ pc[r] = "done"
        /\ EveryVerdictHallucinating(r)
        /\ calls[r].agent = MaxRetries + 2

\* C16: a provider failure in the agent node is not retried: afterwards no
\* agent, tools or critic node runs in that run, and the run ends as a failure
\* raised to the caller of run_research, never as a normal result.
C16_AgentFailureEndsRun ==
    \A r \in AllRuns :
        HasStep(r, "agent_error") =>
            /\ pc[r] \in {"raise", "failed"}
            /\ result[r] = [reflection_logs |-> <<>>, execution_trace |-> <<>>]
            /\ \A i, j \in 1..Len(own[r].trace) :
                (i < j /\ own[r].trace[i].step = "agent_error")
                    => own[r].trace[j].step = "workflow_error"

C16_Witness ==
    \E r \in AllRuns :
        /\ pc[r] = "failed"
        /\ HasStep(r, "agent_error")
        /\ Last(own[r].trace).step = "workflow_error"
        /\ calls[r].agent >= 2
        /\ calls[r].critic >= 1

\* C17: every tool call proposed by one agent message yields exactly one
\* tool-role message tagged with its call id, carrying an error field when
\* the capability failed; a failing call does not keep its siblings from
\* executing; the run continues from tools to agent.
C17_ToolFailuresIsolated ==
    [][ \A r \in AllRuns :
          (calls'[r].tools = calls[r].tools + 1) =>
            LET ids == LastMessage(state[r]).tool_calls
                before == Len(state[r].messages)
                done == Len(own[r].tool_outcomes)
            IN  /\ Len(state'[r].messages) = before + Len(ids)
                /\ SubSeq(state'[r].messages, 1, before) = state[r].messages
                /\ Len(own'[r].tool_outcomes) = done + Len(ids)
                /\ \A i \in 1..Len(ids) :
                    LET m == state'[r].messages[before + i]
                        o == own'[r].tool_outcomes[done + i]
                    IN  /\ m.type = "tool"
                        /\ m.tool_call_id = ids[i]
                        /\ o.id = ids[i]
                        /\ m.content.error <=> (o.outcome = "fails")
                        /\ m.content.success <=> (o.outcome = "ok")
                /\ pc'[r] = "agent"
      ]_vars

C17_Witness ==
    \E r \in AllRuns :
        /\ pc[r] = "done"
        /\ Len(own[r].tool_outcomes) >= 2
        /\ own[r].tool_outcomes[1].outcome = "fails"
        /\ own[r].tool_outcomes[2].outcome = "ok"
        /\ own[r].tool_outcomes[1].id[2] = own[r].tool_outcomes[2].id[2]
        /\ \E i \in 1..Len(state[r].messages) :
            /\ state[r].messages[i].tool_call_id = own[r].tool_outcomes[2].id
            /\ state[r].messages[i].content.success

\* C18: whenever the reflection statistics are read, the five bucket counts of
\* the confidence histogram sum to total_queries, the number of scores the
\* critic has recorded.
SumOf(seq) == IF seq = <<>> THEN 0 ELSE seq[1] + seq[2] + seq[3] + seq[4] + seq[5]

C18_BucketsSumToTotalQueries ==
    LET read == get_reflection_stats(reflection_stats)
    IN  /\ read.total_queries = Len(read.confidence_scores)
        /\ SumOf(read.confidence_distribution) = read.total_queries

(***************************************************************************)
(* Claims about concurrent callers (SpecCacheThreads, SpecMemoryThreads).  *)
(***************************************************************************)
\* C19: get, set, clear and get_stats each run entirely under the cache's
\* lock, so in every state observable between operations the size is at most
\* max_size and hits + misses is the number of completed gets, and what
\* get_stats returns is such a state.
C19_LockedOperations ==
    /\ \A t \in Threads : th[t].pc \in {"locked", "counting", "release"} => lock = t
    /\ lock = 0 =>
        /\ Len(cache) <= max_size
        /\ stats.hits + stats.misses = th[1].gets + th[2].gets
    /\ \A t \in Threads :
        (th[t].op = "get_stats" /\ th[t].pc = "release") =>
            /\ th[t].ret.size <= max_size
            /\ th[t].ret.hits + th[t].ret.misses = th[1].gets + th[2].gets

\* C20: when two concurrent runs append to one session, then, once no run is
\* inside add_message, the session holds the most recently appended messages
\* up to the limit, in the order they were appended: no message is lost to a
\* concurrent append or truncation, and the length is at most the limit.
C20_NoAppendLost ==
    (\A t \in Threads : th[t].pc \notin InsideAddMessage) =>
        \A s \in DOMAIN added :
            /\ s \in DOMAIN conversations
            /\ Len(conversations[s]) <= memory_limit
            /\ conversations[s] = Suffix(added[s], Min(memory_limit, Len(added[s])))


(***************************************************************************)
(* Claims about the cache key (SpecKey).                                   *)
(***************************************************************************)
KeywordMapping(kwargs) == {kwargs[i] : i \in 1..Len(kwargs)}

\* C21: _generate_key gives two calls the same fingerprint exactly when
\* their positional tuples are equal and their keyword arguments are the same
\* mapping, in whatever order the keyword arguments were passed.
C21_KeyIgnoresKeywordOrder ==
    (prev_op.op = "_generate_key" /\ last_op.op = "_generate_key") =>
        ((prev_op.ret = last_op.ret) <=>
            /\ prev_op.args = last_op.args
            /\ KeywordMapping(prev_op.kwargs) = KeywordMapping(last_op.kwargs))

C21_Witness ==
    /\ prev_op.op = "_generate_key"
    /\ last_op.op = "_generate_key"
    /\ Len(last_op.kwargs) = 2
    /\ prev_op.kwargs = <<last_op.kwargs[2], last_op.kwargs[1]>>
    /\ prev_op.args = last_op.args
    /\ Len(last_op.args) = 1
    /\ prev_op.ret = last_op.ret


(***************************************************************************)
(* Claims about history reads (SpecMemory).                                *)
(***************************************************************************)
\* C22: a history read asked for K >= 0 messages returns exactly the last
\* min(K, n) of the n stored messages of the session, in stored order, and a
\* read with K >= 1 of a session that holds a message reports success with
\* message_count >= 1.
C22_ReadReturnsLastK ==
    last_read.store # "none" =>
        LET history == IF last_read.store = "tool" THEN last_read.ret.history
                       ELSE last_read.ret
            n == Len(last_read.stored)
        IN  /\ history = Suffix(last_read.stored, Min(last_read.limit, n))
            /\ (last_read.store = "tool" /\ n >= 1 /\ last_read.limit >= 1) =>
                    /\ last_read.ret.success
                    /\ last_read.ret.message_count >= 1


(***************************************************************************)
(* Claims about the trace and the order of the nodes.                      *)
(***************************************************************************)
TraceHas(t, steps) == \E i \in 1..Len(t) : t[i].step \in steps

\* C23: the execution trace read after a run that returned successfully
\* starts with workflow_start, ends with workflow_complete, holds an
\* agent_start record and a tools_selected or no_tools_needed record, and holds
\* no record of another run.
C23_TraceOfSuccessfulRun ==
    \A r \in AllRuns :
        pc[r] = "done" =>
            LET t == result[r].execution_trace
            IN  /\ t # <<>>
                /\ t[1].step = "workflow_start"
                /\ t[Len(t)].step = "workflow_complete"
                /\ TraceHas(t, {"agent_start"})
                /\ TraceHas(t, {"tools_selected", "no_tools_needed"})
                /\ \A i \in 1..Len(t) : t[i].run = r


\* C24: the nodes of a run follow the graph: router runs once, first, and is
\* followed by the first agent invocation; agent is followed by tools exactly
\* when its latest message proposes tool calls and by critic otherwise; tools
\* is followed by agent; critic is followed by agent or END; END is reached
\* only from critic.
C24_NodesFollowGraph ==
    [][\A r \in AllRuns :
        pc'[r] # pc[r] =>
            /\ pc'[r] = "router" => (pc[r] = "started" /\ calls[r].node = 0)
            /\ pc[r] = "router" => (pc'[r] = "agent" /\ calls[r].agent = 0)
            /\ (pc'[r] = "agent" /\ calls[r].agent = 0) => pc[r] = "router"
            /\ (pc[r] = "agent" /\ pc'[r] # agent_node_except) =>
                    /\ pc'[r] \in {"tools", "critic"}
                    /\ pc'[r] = "tools" <=> LastMessage(state'[r]).tool_calls # <<>>
            /\ pc[r] = "tools" => pc'[r] = "agent"
            /\ pc[r] = "critic" => pc'[r] \in {"agent", "END"}
            /\ pc'[r] = "END" => pc[r] = "critic"]_vars

C24_Witness ==
    \E r \in AllRuns :
        /\ pc[r] = "END"
        /\ calls[r].tools >= 1
        /\ calls[r].retries >= 1
        /\ calls[r].agent >= 3


\* C25: the retry decision after a critic pass routes to agent exactly when
\* is_hallucinating holds and retry_count <= 3, and otherwise to END; it
\* changes nothing in ReflectionStats, and retry_count changes only by the +1
\* that accompanies an accepted retry.
C25_RetryDecisionIsPure ==
    [][\A r \in AllRuns :
        calls'[r].critic = calls[r].critic + 1 =>
            /\ pc'[r] = "agent" <=>
                    /\ StateGet(state'[r], "is_hallucinating", FALSE)
                    /\ StateGet(state'[r], "retry_count", 0) <= MaxRetries
            /\ pc'[r] # "agent" => pc'[r] = "END"
            /\ reflection_stats'.total_retries = reflection_stats.total_retries
            /\ state'[r].retry_count # state[r].retry_count =>
                    /\ pc'[r] = "agent"
                    /\ state'[r].retry_count = state[r].retry_count + 1]_vars


\* C26: every critic invocation, whatever its outcome, adds one to
\* total_queries, adds one confidence score to the histogram data and appends
\* one entry to the reflection logs.
C26_EveryCriticPassIsRecorded ==
    [][\A r \in AllRuns :
        calls'[r].critic = calls[r].critic + 1 =>
            /\ reflection_stats'.total_queries = reflection_stats.total_queries + 1
            /\ Len(reflection_stats'.confidence_scores)
                    = Len(reflection_stats.confidence_scores) + 1
            /\ Len(current_reflection_logs') = Len(current_reflection_logs) + 1]_vars


(***************************************************************************)
(* Claims about eviction (SpecCache).                                      *)
(***************************************************************************)
KeysOf(c) == {c[i].key : i \in 1..Len(c)}
EntryOf(c, key) == c[IndexOf(c, key)]

C28_HallucinationRule ==
    [][\A r \in AllRuns :
        calls'[r].critic = calls[r].critic + 1 =>
            /\ state'[r].is_hallucinating
                    = (state'[r].confidence_score < HallucinationThreshold)
            /\ state'[r].confidence_score = HallucinationThreshold =>
                    /\ ~state'[r].is_hallucinating
                    /\ state'[r].retry_count = state[r].retry_count
                    /\ pc'[r] = "END"]_vars

C28_Witness ==
    \E r \in AllRuns :
        /\ calls[r].critic >= 2
        /\ own[r].critic_out = "json"
        /\ state[r].confidence_score = HallucinationThreshold
        /\ state[r].retry_count = 1
        /\ pc[r] = "END"


\* C29: the contexts a critic pass checks are the contents of all tool
\* messages the run has produced so far, in the order they were produced; a
\* critic pass of a run that has produced a tool message never takes the
\* empty-context short-circuit.
C29_CriticSeesAllToolOutputs ==
    [][\A r \in AllRuns :
        calls'[r].critic = calls[r].critic + 1 =>
            /\ own'[r].contexts =
                    [i \in 1..Len(own[r].tool_outcomes) |->
                        tool_output(own[r].tool_outcomes[i].outcome)]
            /\ own[r].tool_outcomes # <<>> => own'[r].critic_out # "no_context"]_vars

C29_Witness ==
    \E r \in AllRuns :
        /\ calls[r].critic >= 1
        /\ calls[r].tools >= 2
        /\ own[r].tool_outcomes[1].outcome = "fails"
        /\ own[r].tool_outcomes[Len(own[r].tool_outcomes)].outcome = "ok"
        /\ own[r].contexts # <<>>
        /\ Len(own[r].contexts) = Len(own[r].tool_outcomes)

\* C30: node results are merged per field.  In every step a node of the graph
\* takes, the old messages are a prefix of the new ones and the first message
\* stays the user query; agent adds its one response and tools one message per
\* requested call, while router and critic leave the list alone; intent is
\* changed by the router only; retry_count is changed by the critic only, to
\* exactly one more, and the critic does so exactly on a hallucinating
\* verdict; every field the node does not return keeps its value.
GraphNodes == {"router", "agent", "tools", "critic"}

ReturnedBy(node) ==
    IF node = "router" THEN {"intent"}
    ELSE IF node \in {"agent", "tools"} THEN {"messages"}
    ELSE {"is_hallucinating", "confidence_score", "retry_count"}

C30_PerFieldMerge ==
    [][\A r \in AllRuns :
        pc[r] \in GraphNodes =>
            LET old == state[r]
                new == state'[r]
                grown == Len(new.messages) - Len(old.messages)
            IN  /\ DOMAIN old \subseteq DOMAIN new
                /\ grown >= 0
                /\ SubSeq(new.messages, 1, Len(old.messages)) = old.messages
                /\ new.messages[1] = HumanMessage(args[r].query)
                /\ pc[r] = "agent" => grown = (IF pc'[r] = agent_node_except THEN 0 ELSE 1)
                /\ pc[r] = "tools" => grown = Len(LastMessage(old).tool_calls)
                /\ pc[r] \in {"router", "critic"} => grown = 0
                /\ new.intent # old.intent => pc[r] = "router"
                /\ new.retry_count # old.retry_count =>
                        /\ pc[r] = "critic"
                        /\ new.retry_count = old.retry_count + 1
                /\ pc[r] = "critic" =>
                        (new.retry_count = old.retry_count + 1 <=> new.is_hallucinating)
                /\ \A f \in DOMAIN old \ ReturnedBy(pc[r]) : new[f] = old[f]]_vars

C30_Witness ==
    \E r \in AllRuns :
        /\ pc[r] = "critic"
        /\ calls[r].tools >= 1
        /\ calls[r].agent >= 3
        /\ state[r].retry_count >= 1
        /\ state[r].intent = IntentAll
        /\ Len(state[r].messages) >= 5
        /\ state[r].messages[1] = HumanMessage(args[r].query)

\* C31: hits + misses counts the completed get calls: it is 0 at construction,
\* every get adds exactly one to exactly one of the two counters, and set and
\* clear change neither.  clear leaves the cache empty, a key enters the
\* cache only by a set of that key, and a get hits only a stored key: a get
\* after a clear misses until the key is set again.
GetsCounted == stats.hits + stats.misses

C31_StatsCountGets ==
    [][/\ n_ops = 0 => GetsCounted = 0
       /\ IF n_ops' = n_ops + 1 /\ last_op'.op = "get"
           THEN /\ stats'.hits + stats'.misses = GetsCounted + 1
                /\ stats'.hits >= stats.hits
                /\ stats'.misses >= stats.misses
                /\ stats'.hits > stats.hits <=> last_op'.hit
                /\ last_op'.hit => last_op'.key \in KeysOf(cache)
                /\ KeysOf(cache') \subseteq KeysOf(cache)
           ELSE /\ stats' = stats
                /\ (n_ops' = n_ops + 1 /\ last_op'.op = "clear") => cache' = <<>>
                /\ (n_ops' = n_ops + 1 /\ last_op'.op = "set") =>
                         KeysOf(cache') \ KeysOf(cache) \subseteq {last_op'.key}
                /\ n_ops' = n_ops => KeysOf(cache') = KeysOf(cache)]_vars

C31_Witness ==
    /\ n_ops = 3
    /\ prev_op.op = "clear"
    /\ prev_op.size_before >= 1
    /\ last_op.op = "get"
    /\ ~last_op.hit
    /\ stats = [hits |-> 0, misses |-> 1]
    /\ cache = <<>>

\* C32: the entry a critic pass appends to the reflection logs has
\* retry_triggered true exactly when that pass is followed by the edge
\* critic -> agent, whatever retry_count the pass started from.
C32_RetryTriggeredMatchesRouting ==
    [][\A r \in AllRuns :
        (/\ calls'[r].critic = calls[r].critic + 1
         /\ Len(own'[r].logs) = Len(own[r].logs) + 1) =>
            /\ own'[r].logs[Len(own'[r].logs)].retry_triggered <=> pc'[r] = "agent"
            /\ pc'[r] = "agent" <=> calls'[r].retries = calls[r].retries + 1]_vars

C32_Witness ==
    \E r \in AllRuns :
        /\ pc[r] = "END"
        /\ Len(own[r].logs) = MaxRetries + 1
        /\ \A i \in 1..MaxRetries : own[r].logs[i].retry_triggered
        /\ own[r].logs[MaxRetries + 1].is_hallucinating
        /\ ~own[r].logs[MaxRetries + 1].retry_triggered
        /\ state[r].retry_count = MaxRetries + 1

\* C33: for runs executed one after the other on one engine, before and after
\* every step total_retries <= triggered_reflections <= total_queries and
\* total_queries is the number of recorded confidence scores; no step lowers
\* a counter or shortens the list of scores, and the start of a run leaves
\* the statistics as the earlier run left them.
StatsOrdered(rs) ==
    /\ rs.total_retries <= rs.triggered_reflections
    /\ rs.triggered_reflections <= rs.total_queries
    /\ rs.total_queries = Len(rs.confidence_scores)

C33_StatsOrderedAndMonotone ==
    [][/\ StatsOrdered(reflection_stats)
       /\ StatsOrdered(reflection_stats')
       /\ reflection_stats'.total_queries >= reflection_stats.total_queries
       /\ reflection_stats'.triggered_reflections >= reflection_stats.triggered_reflections
       /\ reflection_stats'.total_retries >= reflection_stats.total_retries
       /\ SubSeq(reflection_stats'.confidence_scores, 1,
                 Len(reflection_stats.confidence_scores))
            = reflection_stats.confidence_scores
       /\ \A r \in AllRuns :
            pc'[r] \in {"started", "router"} /\ pc'[r] # pc[r] =>
                reflection_stats' = reflection_stats]_vars

C33_Witness ==
    \E r, o \in AllRuns :
        /\ pc[o] = "done"
        /\ calls[o].critic >= 1
        /\ pc[r] = "END"
        /\ calls[r].critic >= 1
        /\ reflection_stats.total_queries > calls[r].critic
        /\ reflection_stats.total_retries >= 1
        /\ reflection_stats.total_retries < reflection_stats.triggered_reflections
        /\ reflection_stats.triggered_reflections < reflection_stats.total_queries

\* C34: a run started without a conversation id leaves current_session_id as
\* it was.  Its user query and its answer are appended to the session chosen
\* by the most recent earlier run that gave an id, every other session is
\* left alone, and nothing is stored when no run has given an id.
EarlierSessionOf(r) ==
    IF \E o \in AllRuns \ {r} : pc[o] = "done" /\ args[o].conversation_id # None
    THEN LET o == CHOOSE o \in AllRuns \ {r} :
                    pc[o] = "done" /\ args[o].conversation_id # None
         IN  args[o].conversation_id
    ELSE None

StoredBy(r) ==
    IF pc[r] = "started"
    THEN <<[role |-> "user", content |-> args[r].query]>>
    ELSE IF pc[r] = "END"
    THEN <<[role |-> "assistant", content |-> LastMessage(state[r]).content]>>
    ELSE <<>>

C34_RunWithoutIdUsesEarlierSession ==
    [][\A r \in AllRuns :
        (pc'[r] # pc[r] /\ args'[r].conversation_id = None) =>
            LET cur == EarlierSessionOf(r)
            IN  /\ current_session_id' = cur
                /\ pc[r] # "idle" => current_session_id = cur
                /\ cur = None => conversations' = conversations
                /\ cur # None =>
                    /\ DOMAIN conversations' = DOMAIN conversations
                    /\ conversations'[cur] = conversations[cur] \o StoredBy(r)
                    /\ \A s \in DOMAIN conversations \ {cur} :
                            conversations'[s] = conversations[s]]_vars

C34_Witness ==
    \E r, o \in AllRuns :
        /\ pc[o] = "done"
        /\ args[o].conversation_id = "A"
        /\ pc[r] = "returned"
        /\ args[r].conversation_id = None
        /\ current_session_id = "A"
        /\ Len(conversations["A"]) = 4
        /\ conversations["A"][3] = [role |-> "user", content |-> args[r].query]
        /\ conversations["A"][4].role = "assistant"

Stopped == {"failed", "returned", "done"}

FailedRunTrace ==
    /\ Last(execution_trace).step = "workflow_error"
    /\ ~TraceHas(execution_trace, {"workflow_complete"})

UserMessageLast(r) ==
    /\ current_session_id \in DOMAIN conversations
    /\ Last(conversations[current_session_id])
            = [role |-> "user", content |-> args[r].query]

\* C35 as stated: once a run in which the agent failed has stopped, it has
\* failed, the current session ends with the run's user message and the
\* trace ends with workflow_error and holds no workflow_complete.
C35_FailedRunLeavesUserMessage ==
    \A r \in AllRuns :
        (HasStep(r, "agent_error") /\ pc[r] \in Stopped) =>
            /\ pc[r] = "failed"
            /\ UserMessageLast(r)
            /\ FailedRunTrace

\* C35 amended: the same when a session is selected; when none is selected
\* (the run was started without an id on a fresh engine) nothing is stored.
C35_FailedRunLeavesUserMessageIfSessionSelected ==
    \A r \in AllRuns :
        (HasStep(r, "agent_error") /\ pc[r] \in Stopped) =>
            /\ pc[r] = "failed"
            /\ FailedRunTrace
            /\ IF Truthy(current_session_id)
               THEN UserMessageLast(r)
               ELSE conversations = <<>>

C35_Witness ==
    \E r \in AllRuns :
        /\ pc[r] = "failed"
        /\ HasStep(r, "agent_error")
        /\ calls[r].agent >= 2
        /\ current_session_id = "A"
        /\ conversations["A"] = <<[role |-> "user", content |-> args[r].query]>>
        /\ Last(execution_trace).step = "workflow_error"

\* C36: the wrappers do not serialise callers of one key.  Whenever two
\* callers have each finished one wrapped call of the same key and both
\* missed, both have executed the function, the cache holds exactly one
\* entry of that key and the miss counter stands at two.  In every state a
\* key is stored at most once, the miss counter is the number of lookups that
\* missed, every lookup that was not served has executed (or is about to
\* execute) the function, and a value served from the cache is never None.
EntriesOf(c, key) == {i \in 1..Len(c) : c[i].key = key}

BothMissed(key) ==
    \A t \in Threads :
        /\ th[t].pc = "idle"
        /\ th[t].calls = 1
        /\ th[t].lookups = 1
        /\ th[t].key = key
        /\ th[t].missed

C36_CacheAsideWithoutSingleFlight ==
    /\ \A key \in CacheKeys : Cardinality(EntriesOf(cache, key)) <= 1
    /\ stats.misses = th[1].misses + th[2].misses
    /\ \A t \in Threads :
        /\ th[t].served => th[t].ret # None
        /\ th[t].executions + (IF th[t].pc = "executing" THEN 1 ELSE 0)
                = th[t].lookups - th[t].servings
        /\ th[t].servings + th[t].misses <= th[t].lookups
    /\ \A key \in CacheKeys :
        BothMissed(key) =>
            /\ \A t \in Threads : th[t].executions = 1
            /\ Cardinality(EntriesOf(cache, key)) = 1
            /\ stats = [hits |-> 0, misses |-> 2]

C36_Witness ==
    /\ now = 0
    /\ BothMissed(0)
    /\ th[1].ret = "v1"
    /\ th[2].ret = "v2"
    /\ Len(cache) = 1
    /\ stats.misses = 2

\* C37: expiry never makes set remove an entry.  A set below capacity
\* removes nothing; at capacity (expired entries counted) it removes entries
\* that are no younger, by created_at, than every entry it keeps, expired or
\* not, and it leaves the kept entries as they were.  A get removes at most
\* the entry of its own key, and exactly when that entry is expired; the
\* passing of time removes nothing.
RemovedOthers(key) ==
    {i \in 1..Len(cache) : cache[i].key # key /\ cache[i].key \notin KeysOf(cache')}

KeptOthers(key) ==
    {i \in 1..Len(cache) : cache[i].key # key /\ cache[i].key \in KeysOf(cache')}

C37_SetIgnoresExpiry ==
    [][/\ n_ops' = n_ops => cache' = cache
       /\ (n_ops' = n_ops + 1 /\ last_op'.op = "get") =>
            LET i == IndexOf(cache, last_op'.key)
            IN  /\ RemovedOthers(last_op'.key) = {}
                /\ Len(cache') < Len(cache) <=> (i > 0 /\ is_expired(cache[i], now))
       /\ (n_ops' = n_ops + 1 /\ last_op'.op = "set") =>
            LET key == last_op'.key
            IN  /\ Len(cache) < max_size => RemovedOthers(key) = {}
                /\ Len(cache) < max_size => Len(cache') >= Len(cache)
                /\ (Len(cache) >= max_size /\ cache # <<>>) =>
                        last_op'.evicted # {}
                /\ \A i \in RemovedOthers(key), j \in KeptOthers(key) :
                        cache[i].created_at <= cache[j].created_at
                /\ \A j \in KeptOthers(key) : cache[j] \in EntrySet(cache')]_vars

C37_Witness ==
    /\ last_op.op = "set"
    /\ \E a \in last_op.evicted :
        /\ ~is_expired(a, last_op.at)
        /\ a.key \notin KeysOf(cache)
        /\ \E i \in 1..Len(cache) :
            /\ cache[i].key # last_op.key
            /\ cache[i].created_at > a.created_at
            /\ is_expired(cache[i], last_op.at)

\* C38: after set(k, v) the key k is stored once, with value v, created_at
\* the time of the call, the ttl given (or the default) and a hit count of 0,
\* whether or not k was stored before.  At capacity the eviction runs first,
\* also when k is already stored: it removes at least one entry of a
\* non-empty cache, and the size after the set is the size after the
\* eviction, plus one unless k survived the eviction.
C38_SetStoresFreshEntry ==
    [][(n_ops' = n_ops + 1 /\ last_op'.op = "set") =>
        LET key == last_op'.key
            mid == AfterEviction(cache, max_size)
        IN  /\ Cardinality({i \in 1..Len(cache') : cache'[i].key = key}) = 1
            /\ EntryOf(cache', key) =
                    [key |-> key, value |-> last_op'.value, created_at |-> now,
                     ttl |-> IF last_op'.ttl = 0 THEN default_ttl ELSE last_op'.ttl,
                     hits |-> 0]
            /\ (Len(cache) >= max_size /\ cache # <<>>) =>
                    /\ last_op'.evicted # {}
                    /\ Len(mid) < Len(cache)
            /\ Len(cache) < max_size => mid = cache
            /\ Len(cache') = Len(mid) + (IF key \in KeysOf(mid) THEN 0 ELSE 1)
            /\ (key \in KeysOf(mid) /\ Len(cache) >= max_size) =>
                    Len(cache') < Len(cache)]_vars

C38_Witness ==
    /\ last_op.op = "set"
    /\ prev_op.op = "get"
    /\ prev_op.key = last_op.key
    /\ prev_op.hit
    /\ last_op.size_before >= 2
    /\ last_op.size_mid < last_op.size_before
    /\ Len(cache) = last_op.size_mid
    /\ last_op.key \notin {e.key : e \in last_op.evicted}
    /\ EntryOf(cache, last_op.key).hits = 0
    /\ EntryOf(cache, last_op.key).created_at = last_op.at

\* C39: the endpoint's cache key is made of the query and max_results alone.
\* A request that hits the cache is answered at once with the stored
\* response, the storing request's conversation_id included (only cached and
\* timestamp are replaced): no run is made, no session changes and the
\* current session stays.  A run that raises stores nothing in the cache.
C39_CachedResponseIgnoresConversation ==
    [][\A r \in AllRuns :
        /\ \A i \in 1..Len(cache') :
                cache'[i].key = <<"research", ":">> \o cache'[i].value.query
                                    \o <<":">> \o IntStr(cache'[i].value.max_results)
        /\ (pc[r] = "lookup" /\ pc'[r] = "returned_cached") =>
            LET stored == EntryOf(cache, research_cache_key(args[r])).value
            IN  /\ result'[r] = [stored EXCEPT !.cached = TRUE, !.timestamp = now]
                /\ result'[r].conversation_id = stored.conversation_id
                /\ \E o \in AllRuns \ {r} :
                        /\ pc[o] = "returned"
                        /\ stored = result[o]
                        /\ args[o].query = args[r].query
                        /\ args[o].max_results = args[r].max_results
                /\ UNCHANGED <<conversations, current_session_id, added>>
        /\ (pc[r] = "lookup" /\ pc'[r] = "running") =>
                research_cache_key(args[r]) \notin KeysOf(cache')
        /\ pc'[r] = "http_500" /\ pc[r] # "http_500" =>
                /\ pc[r] = "running"
                /\ cache' = cache]_vars

C39_Witness ==
    \E r, o \in AllRuns :
        /\ pc[o] = "returned"
        /\ args[o].conversation_id = "A"
        /\ pc[r] = "returned_cached"
        /\ args[r].conversation_id = "B"
        /\ result[r].conversation_id = "A"
        /\ result[r].cached
        /\ result[r].response = AnswerOf(o)
        /\ DOMAIN conversations = {"A"}
        /\ current_session_id = "A"

====
